---- MODULE Spec2Model ----
(***************************************************************************)
(* code-prompt-core: the scan-and-reconcile cache engine (cmd/cache.go,    *)
(* pkg/scanner, pkg/database) and the filter engine (pkg/filter,           *)
(* cmd/common.go), as a state machine.                                     *)
(*                                                                         *)
(* Strings that the code inspects character by character (relative paths,  *)
(* directory names, extensions) are sequences of one-character strings.    *)
(* File contents are sequences of byte values.                             *)
(***************************************************************************)
EXTENDS Bags, FiniteSets, Integers, Sequences, TLC

(***************************************************************************)
(* Bounds of the model.                                                    *)
(***************************************************************************)
\* modification times range over the seconds 1..MaxSec
MaxSec == 1
\* number of cache update invocations in one behaviour (the wall clock
\* advances by one with every invocation)
MaxClock == 2
\* --batch-size ranges over 1..MaxBatchSize
MaxBatchSize == 2

(***************************************************************************)
(* Input domains.                                                          *)
(***************************************************************************)
\* the cache update processes (one per invocation of the command line tool)
Procs == {1, 2}
\* the processes of Spec, where the caller runs one refresh at a time
SerialProcs == {1}
ProjectIDs == {1}

PathAGo == <<"a", ".", "g", "o">>
PathVendorBGo == <<"v", "e", "n", "d", "o", "r", "/", "b", ".", "g", "o">>
PathImagePng == <<"i", "m", "a", "g", "e", ".", "p", "n", "g">>
\* the regular files the project tree may hold
Paths == {PathAGo, PathVendorBGo, PathImagePng}

\* file contents: "a\n", "a\nb" and a content with a NUL byte
TextOneLine == <<97, 10>>
TextTwoLines == <<97, 10, 98>>
BinaryContent == <<0, 97>>
Contents == {TextOneLine, TextTwoLines, BinaryContent}

\* sub-second parts of a modification time, in nanoseconds
NsecValues == {0, 500000000}
MTimes == [sec : 1..MaxSec, nsec : NsecValues]

Absent == [exists |-> FALSE]
FileStates == {Absent} \cup [exists : {TRUE}, mtime : MTimes, content : Contents]

\* the states each file of the tree takes: a.go is a text file that is
\* created, touched, rewritten and removed; vendor/b.go is a text file and
\* image.png a binary file, each created and removed
FirstMTime == [sec |-> 1, nsec |-> 0]
StatesOf(path) ==
    IF path = PathAGo
    THEN {Absent} \cup [exists : {TRUE}, mtime : MTimes,
                        content : {TextOneLine, TextTwoLines}]
    ELSE IF path = PathVendorBGo
    THEN {Absent, [exists |-> TRUE, mtime |-> FirstMTime, content |-> TextOneLine]}
    ELSE {Absent, [exists |-> TRUE, mtime |-> FirstMTime, content |-> BinaryContent]}
Trees == {t \in [Paths -> FileStates] : \A path \in Paths : t[path] \in StatesOf(path)}

(***************************************************************************)
(* Sequence helpers.                                                       *)
(***************************************************************************)
Range(s) == {s[i] : i \in DOMAIN s}

Min(a, b) == IF a < b THEN a ELSE b

\* the sequences that list every element of the finite set S exactly once
Orderings(S) ==
    {s \in [1..Cardinality(S) -> S] : \A a, b \in DOMAIN s : a # b => s[a] # s[b]}

\* s[lo+1 .. hi], the Go slice s[lo:hi]
Slice(s, lo, hi) == [k \in 1..(hi - lo) |-> s[lo + k]]

(***************************************************************************)
(* Paths and names (path/filepath).                                        *)
(***************************************************************************)
\* the largest index at which c occurs in s, 0 when it does not occur
LastIndexOf(s, c) ==
    IF \E i \in DOMAIN s : s[i] = c
    THEN CHOOSE i \in DOMAIN s : s[i] = c /\ \A j \in DOMAIN s : s[j] = c => j <= i
    ELSE 0

\* filepath.Base of a relative path: the final element
Base(path) == Slice(path, LastIndexOf(path, "/"), Len(path))

\* filepath.Ext: the suffix of the name that begins at its final dot
FilepathExt(name) ==
    IF LastIndexOf(name, ".") = 0 THEN <<>>
    ELSE Slice(name, LastIndexOf(name, ".") - 1, Len(name))

\* the names of the directories the walk enters on its way to path,
\* each with the relative path of that directory
AncestorDirs(path) ==
    {[Name |-> Base(Slice(path, 0, i - 1)), RelPath |-> Slice(path, 0, i - 1)] :
        i \in {j \in DOMAIN path : path[j] = "/"}}

(***************************************************************************)
(* time.Time values and their textual formats.                             *)
(***************************************************************************)
Pow10(n) == IF n = 0 THEN 1 ELSE
            IF n = 1 THEN 10 ELSE
            IF n = 2 THEN 100 ELSE
            IF n = 3 THEN 1000 ELSE
            IF n = 4 THEN 10000 ELSE
            IF n = 5 THEN 100000 ELSE
            IF n = 6 THEN 1000000 ELSE
            IF n = 7 THEN 10000000 ELSE
            IF n = 8 THEN 100000000 ELSE 1000000000

\* the nine decimal digits of a nanosecond count
NanoDigits(nsec) == [i \in 1..9 |-> (nsec \div Pow10(9 - i)) % 10]

RECURSIVE TrimTrailingZeros(_)
TrimTrailingZeros(digits) ==
    IF digits = <<>> THEN <<>>
    ELSE IF digits[Len(digits)] = 0
         THEN TrimTrailingZeros(SubSeq(digits, 1, Len(digits) - 1))
         ELSE digits

\* t.Format(time.RFC3339Nano) of a UTC time: the seconds, then the fraction
\* with its trailing zeros removed (no fraction at all when nsec = 0)
FormatRFC3339Nano(t) ==
    [sec |-> t.sec, frac |-> TrimTrailingZeros(NanoDigits(t.nsec))]

RECURSIVE FracToNsec(_, _)
FracToNsec(frac, pos) ==
    IF pos > Len(frac) THEN 0
    ELSE frac[pos] * Pow10(9 - pos) + FracToNsec(frac, pos + 1)

\* time.Parse(time.RFC3339Nano, s); the format also accepts a text without
\* a fraction
ParseRFC3339Nano(s) == [sec |-> s.sec, nsec |-> FracToNsec(s.frac, 1)]

\* t.Format(time.RFC3339): whole seconds only
FormatRFC3339(t) == [sec |-> t.sec, frac |-> <<>>]

\* Time.Equal: the same instant
TimeEqual(t, u) == t.sec = u.sec /\ t.nsec = u.nsec

ZeroTime == [sec |-> 0, nsec |-> 0]

(***************************************************************************)
(* pkg/scanner.                                                            *)
(***************************************************************************)
presetExclusions == {
    <<"n", "o", "d", "e", "_", "m", "o", "d", "u", "l", "e", "s">>,
    <<"v", "e", "n", "v">>,
    <<".", "v", "e", "n", "v">>,
    <<"_", "_", "p", "y", "c", "a", "c", "h", "e", "_", "_">>,
    <<".", "p", "y", "t", "e", "s", "t", "_", "c", "a", "c", "h", "e">>,
    <<".", "t", "o", "x">>,
    <<"b", "u", "i", "l", "d">>,
    <<"d", "i", "s", "t">>,
    <<".", "e", "g", "g", "-", "i", "n", "f", "o">>,
    <<"t", "a", "r", "g", "e", "t">>,
    <<"v", "e", "n", "d", "o", "r">>,
    <<".", "g", "r", "a", "d", "l", "e">>,
    <<".", "i", "d", "e", "a">>,
    <<".", "v", "s", "c", "o", "d", "e">>,
    <<".", "g", "i", "t">>}

\* the number of leading bytes processFile inspects for a NUL byte
SniffLen == 512

ScanOptions == [NoGitIgnores : BOOLEAN, IncludeBinary : BOOLEAN, NoPresetExcludes : BOOLEAN]

\* the options the refreshes of Spec are run with: the defaults, and
\* --include-binary --no-preset-excludes
DefaultOptions ==
    [NoGitIgnores |-> FALSE, IncludeBinary |-> FALSE, NoPresetExcludes |-> FALSE]
RefreshOptions ==
    {DefaultOptions,
     [NoGitIgnores |-> FALSE, IncludeBinary |-> TRUE, NoPresetExcludes |-> TRUE]}

\* FileMetadata{}: the zero value, which processFile returns for a skipped
\* binary file
EmptyFileMetadata ==
    [RelativePath |-> <<>>, Filename |-> <<>>, Extension |-> <<>>, SizeBytes |-> 0,
     LineCount |-> 0, IsText |-> FALSE, LastModTime |-> ZeroTime, ContentHash |-> <<>>]

\* isText decided on the whole content of the file
IsTextContentWholeFile(content) ==
    \A i \in DOMAIN content : content[i] # 0

\* isText: no NUL byte among the first SniffLen bytes
IsTextContent(content) ==
    \A i \in 1..Min(SniffLen, Len(content)) : content[i] # 0

\* hex.EncodeToString(sha256.Sum(content)): a digest is never empty and
\* distinct contents have distinct digests
Sha256Hex(content) == <<Len(content)>> \o content

\* the number of tokens bufio.Scanner yields with ScanLines: one per newline,
\* and one more for a final line that has no newline
CountLines(content) ==
    Cardinality({i \in DOMAIN content : content[i] = 10})
    + (IF content # <<>> /\ content[Len(content)] # 10 THEN 1 ELSE 0)

processFile(path, info, options) ==
    LET isText == IsTextContent(info.content)
        ext == FilepathExt(Base(path))
    IN  IF ~isText /\ ~options.IncludeBinary
        THEN EmptyFileMetadata
        ELSE [RelativePath |-> path,
              Filename |-> Base(path),
              Extension |-> IF ext # <<>> THEN Tail(ext) ELSE ext,
              SizeBytes |-> Len(info.content),
              LineCount |-> IF isText THEN CountLines(info.content) ELSE 0,
              IsText |-> isText,
              LastModTime |-> info.mtime,
              ContentHash |-> Sha256Hex(info.content)]

\* WalkSkipsDir with the preset names applied to the directories of the
\* project root only
WalkSkipsDirAtRootOnly(dir, options) ==
    ~options.NoPresetExcludes /\ dir.Name \in presetExclusions /\ dir.RelPath = dir.Name

\* the walk callback's verdict on a directory: SkipDir for a preset name
WalkSkipsDir(dir, options) ==
    ~options.NoPresetExcludes /\ dir.Name \in presetExclusions

\* the files the walk submits to the pool: the regular files that lie under
\* no skipped directory
WalkedPaths(tree, options) ==
    {path \in DOMAIN tree :
        /\ tree[path].exists
        /\ \A dir \in AncestorDirs(path) : ~WalkSkipsDir(dir, options)}

\* ScanProject without error: the results of the pool, minus the empty ones
ScanProject(tree, options) ==
    LET results == {processFile(path, tree[path], options) :
                        path \in WalkedPaths(tree, options)}
    IN  {res \in results : res.RelativePath # <<>>}

(***************************************************************************)
(* pkg/filter: patterns.  A pattern is the sequence of its characters.     *)
(* regexpCompile and MatchString cover the part of the regexp syntax that  *)
(* Compile synthesizes and that the patterns of RegexPatterns use: an      *)
(* optional "^" or "(^|/)" at the start, literal and escaped characters    *)
(* and ".", and an optional "$" or ".*" at the end.                        *)
(***************************************************************************)
HasPrefix(s, prefix) ==
    Len(s) >= Len(prefix) /\ SubSeq(s, 1, Len(prefix)) = prefix

HasSuffix(s, suffix) ==
    Len(s) >= Len(suffix) /\ SubSeq(s, Len(s) - Len(suffix) + 1, Len(s)) = suffix

TrimPrefix(s, prefix) ==
    IF HasPrefix(s, prefix) THEN SubSeq(s, Len(prefix) + 1, Len(s)) ELSE s

TrimSuffix(s, suffix) ==
    IF HasSuffix(s, suffix) THEN SubSeq(s, 1, Len(s) - Len(suffix)) ELSE s

\* os.PathSeparator of the build
Separator == "/"

\* os.PathSeparator of the builds of the program: "/" (Linux, macOS) and
\* "\" (Windows)
Separators == {"/", "\\"}

\* filepath.ToSlash of a build whose separator is separator
ToSlashFor(separator, path) ==
    [i \in DOMAIN path |-> IF path[i] = separator THEN "/" ELSE path[i]]

\* filepath.ToSlash
ToSlash(path) == ToSlashFor(Separator, path)

\* the form in which filepath.Rel returns the path whose elements are
\* those of the slash-separated path
FromSlashFor(separator, path) ==
    [i \in DOMAIN path |-> IF path[i] = "/" THEN separator ELSE path[i]]

\* the characters regexp.QuoteMeta escapes
RegexMeta == {"\\", ".", "+", "*", "?", "(", ")", "|", "[", "]", "{", "}", "^", "$"}

RECURSIVE QuoteMeta(_)
QuoteMeta(s) ==
    IF s = <<>> THEN <<>>
    ELSE (IF Head(s) \in RegexMeta THEN <<"\\", Head(s)>> ELSE <<Head(s)>>)
         \o QuoteMeta(Tail(s))

Lit(c) == [kind |-> "lit", c |-> c]
Op(c) == [kind |-> "op", c |-> c]

\* the lexical elements of a pattern: an escaped character is a literal, a
\* backslash at the end of the pattern is an error
RECURSIVE Tokens(_)
Tokens(p) ==
    IF p = <<>> THEN <<>>
    ELSE IF Head(p) = "\\"
    THEN IF Len(p) = 1 THEN <<[kind |-> "bad", c |-> "\\"]>>
         ELSE <<Lit(p[2])>> \o Tokens(SubSeq(p, 3, Len(p)))
    ELSE IF Head(p) \in RegexMeta THEN <<Op(Head(p))>> \o Tokens(Tail(p))
    ELSE <<Lit(Head(p))>> \o Tokens(Tail(p))

\* the tokens of "(^|/)"
SegmentStart == <<Op("("), Op("^"), Op("|"), Lit("/"), Op(")")>>

\* regexp.Compile: ok is FALSE for a pattern that does not parse (a
\* parenthesis or bracket that is not closed or not opened, a repetition
\* with nothing to repeat, a trailing backslash)
regexpCompile(p) ==
    LET toks == Tokens(p)
        start == IF HasPrefix(toks, SegmentStart) THEN "seg"
                 ELSE IF HasPrefix(toks, <<Op("^")>>) THEN "bol"
                 ELSE "any"
        afterStart == IF start = "seg" THEN TrimPrefix(toks, SegmentStart)
                      ELSE TrimPrefix(toks, <<Op("^")>>)
        end == IF HasSuffix(afterStart, <<Op("$")>>) THEN "eol" ELSE "any"
        body == IF end = "eol" THEN TrimSuffix(afterStart, <<Op("$")>>)
                ELSE TrimSuffix(afterStart, <<Op("."), Op("*")>>)
    IN  [ok |-> \A i \in DOMAIN body : body[i].kind = "lit" \/ body[i] = Op("."),
         pattern |-> p, start |-> start, body |-> body, end |-> end]

\* (*Regexp).MatchString: the pattern matches somewhere in s
MatchString(re, s) ==
    \E i \in 1..(Len(s) + 1) :
        /\ \/ re.start = "any"
           \/ re.start = "bol" /\ i = 1
           \/ re.start = "seg" /\ (i = 1 \/ s[i - 1] = "/")
        /\ i + Len(re.body) - 1 <= Len(s)
        /\ \A k \in DOMAIN re.body :
              re.body[k].kind = "lit" => s[i + k - 1] = re.body[k].c
        /\ re.end = "eol" => i + Len(re.body) - 1 = Len(s)

MatchesAny(path, patterns) ==
    \E i \in DOMAIN patterns : MatchString(patterns[i], path)

\* the zero value of filter.Filter
ZeroFilter ==
    [IncludePaths |-> <<>>, ExcludePaths |-> <<>>,
     IncludeExts |-> <<>>, ExcludeExts |-> <<>>,
     IncludePrefixes |-> <<>>, ExcludePrefixes |-> <<>>,
     IncludeRegex |-> <<>>, ExcludeRegex |-> <<>>,
     Priority |-> "",
     compiledIncludeRegex |-> <<>>, compiledExcludeRegex |-> <<>>]

\* the loops of Compile over allIncludeRegex and allExcludeRegex: empty
\* patterns are skipped, the first pattern that does not compile ends the loop
RECURSIVE CompilePatterns(_, _)
CompilePatterns(patterns, compiled) ==
    IF patterns = <<>> THEN [compiled |-> compiled, failed |-> FALSE, pattern |-> <<>>]
    ELSE IF Head(patterns) = <<>> THEN CompilePatterns(Tail(patterns), compiled)
    ELSE LET re == regexpCompile(Head(patterns))
         IN  IF ~re.ok
             THEN [compiled |-> compiled, failed |-> TRUE, pattern |-> Head(patterns)]
             ELSE CompilePatterns(Tail(patterns), Append(compiled, re))

\* the pattern Compile makes of an includePaths / excludePaths value
PathRegexFor(separator, path) ==
    LET regexPath == QuoteMeta(ToSlashFor(separator, path))
    IN  IF ~HasSuffix(regexPath, <<"/">>)
        THEN <<"^">> \o regexPath \o <<"$">>
        ELSE <<"^">> \o regexPath \o <<".", "*">>

\* ExtRegex without the end anchor
ExtRegexUnanchored(ext) ==
    <<"\\", ".">> \o QuoteMeta(TrimPrefix(ext, <<".">>))

\* the pattern Compile makes of an includeExts / excludeExts value
ExtRegex(ext) ==
    <<"\\", ".">> \o QuoteMeta(TrimPrefix(ext, <<".">>)) \o <<"$">>

\* the pattern Compile makes of an includePrefixes / excludePrefixes value
PrefixRegex(prefix) ==
    <<"(", "^", "|", "/", ")">> \o QuoteMeta(prefix) \o <<".", "*">>

\* (*Filter).Compile in a build whose separator is separator: the filter it
\* leaves and the error it returns
CompileFor(separator, f) ==
    LET allIncludeRegex ==
            f.IncludeRegex
            \o [i \in DOMAIN f.IncludePaths |-> PathRegexFor(separator, f.IncludePaths[i])]
            \o [i \in DOMAIN f.IncludeExts |-> ExtRegex(f.IncludeExts[i])]
            \o [i \in DOMAIN f.IncludePrefixes |-> PrefixRegex(f.IncludePrefixes[i])]
        allExcludeRegex ==
            f.ExcludeRegex
            \o [i \in DOMAIN f.ExcludePaths |-> PathRegexFor(separator, f.ExcludePaths[i])]
            \o [i \in DOMAIN f.ExcludeExts |-> ExtRegex(f.ExcludeExts[i])]
            \o [i \in DOMAIN f.ExcludePrefixes |-> PrefixRegex(f.ExcludePrefixes[i])]
        inc == CompilePatterns(allIncludeRegex, <<>>)
        exc == CompilePatterns(allExcludeRegex, <<>>)
    IN  IF inc.failed
        THEN [f |-> [f EXCEPT !.compiledIncludeRegex = inc.compiled],
              err |-> "invalid include regex pattern", pattern |-> inc.pattern]
        ELSE IF exc.failed
        THEN [f |-> [f EXCEPT !.compiledIncludeRegex = inc.compiled,
                              !.compiledExcludeRegex = exc.compiled],
              err |-> "invalid exclude regex pattern", pattern |-> exc.pattern]
        ELSE [f |-> [f EXCEPT !.compiledIncludeRegex = inc.compiled,
                              !.compiledExcludeRegex = exc.compiled],
              err |-> "", pattern |-> <<>>]

\* (*Filter).Compile
Compile(f) == CompileFor(Separator, f)

\* GetFilteredFilePaths with a path that matches neither list always added
GetFilteredFilePathsAddsUnmatched(relativePaths, filter) ==
    LET shouldAdd(relativePath) ==
            LET matchInclude ==
                    \/ Len(filter.compiledIncludeRegex) = 0
                    \/ MatchesAny(relativePath, filter.compiledIncludeRegex)
                matchExclude ==
                    /\ Len(filter.compiledExcludeRegex) > 0
                    /\ MatchesAny(relativePath, filter.compiledExcludeRegex)
            IN  IF matchInclude /\ matchExclude THEN filter.Priority # "excludes"
                ELSE IF matchInclude THEN TRUE
                ELSE IF matchExclude THEN FALSE
                ELSE TRUE
    IN  SelectSeq(relativePaths, shouldAdd)

\* GetFilteredFilePaths with the precedence read as "included only when the
\* token is includes"
GetFilteredFilePathsIncludesToken(relativePaths, filter) ==
    LET shouldAdd(relativePath) ==
            LET matchInclude ==
                    \/ Len(filter.compiledIncludeRegex) = 0
                    \/ MatchesAny(relativePath, filter.compiledIncludeRegex)
                matchExclude ==
                    /\ Len(filter.compiledExcludeRegex) > 0
                    /\ MatchesAny(relativePath, filter.compiledExcludeRegex)
            IN  IF matchInclude /\ matchExclude THEN filter.Priority = "includes"
                ELSE IF matchInclude THEN TRUE
                ELSE IF matchExclude THEN FALSE
                ELSE Len(filter.compiledIncludeRegex) = 0
    IN  SelectSeq(relativePaths, shouldAdd)

\* GetFilteredFilePaths with a loop that ends at the first path it
\* rejects: what it returns for a path depends on the paths before it
GetFilteredFilePathsStopsAtRejected(relativePaths, filter) ==
    LET shouldAdd(relativePath) ==
            LET matchInclude ==
                    \/ Len(filter.compiledIncludeRegex) = 0
                    \/ MatchesAny(relativePath, filter.compiledIncludeRegex)
                matchExclude ==
                    /\ Len(filter.compiledExcludeRegex) > 0
                    /\ MatchesAny(relativePath, filter.compiledExcludeRegex)
            IN  IF matchInclude /\ matchExclude THEN filter.Priority # "excludes"
                ELSE IF matchInclude THEN TRUE
                ELSE IF matchExclude THEN FALSE
                ELSE Len(filter.compiledIncludeRegex) = 0
        rejected == {i \in DOMAIN relativePaths : ~shouldAdd(relativePaths[i])}
    IN  IF rejected = {} THEN relativePaths
        ELSE SubSeq(relativePaths, 1,
                    (CHOOSE i \in rejected : \A j \in rejected : i <= j) - 1)

\* GetFilteredFilePaths: the loop over the rows of
\* SELECT relative_path FROM file_metadata WHERE project_id = ?, given in
\* the order the query yields them
GetFilteredFilePaths(relativePaths, filter) ==
    LET shouldAdd(relativePath) ==
            LET matchInclude ==
                    \/ Len(filter.compiledIncludeRegex) = 0
                    \/ MatchesAny(relativePath, filter.compiledIncludeRegex)
                matchExclude ==
                    /\ Len(filter.compiledExcludeRegex) > 0
                    /\ MatchesAny(relativePath, filter.compiledExcludeRegex)
            IN  IF matchInclude /\ matchExclude THEN filter.Priority # "excludes"
                ELSE IF matchInclude THEN TRUE
                ELSE IF matchExclude THEN FALSE
                ELSE Len(filter.compiledIncludeRegex) = 0
    IN  SelectSeq(relativePaths, shouldAdd)

\* the text of a --filter-json flag or of a profile_data_json column: empty,
\* malformed, or a JSON object, given as the function from its keys to
\* their values
NoJSON == [empty |-> TRUE, valid |-> TRUE, doc |-> <<>>]
MalformedJSON == [empty |-> FALSE, valid |-> FALSE, doc |-> <<>>]
JSON(doc) == [empty |-> FALSE, valid |-> TRUE, doc |-> doc]

\* json.Unmarshal into a Filter: the fields whose keys the object has are
\* set, the other fields keep their values
Unmarshal(doc, f) ==
    LET field(key, old) == IF key \in DOMAIN doc THEN doc[key] ELSE old
    IN  [f EXCEPT !.IncludePaths = field("includePaths", @),
                  !.ExcludePaths = field("excludePaths", @),
                  !.IncludeExts = field("includeExts", @),
                  !.ExcludeExts = field("excludeExts", @),
                  !.IncludePrefixes = field("includePrefixes", @),
                  !.ExcludePrefixes = field("excludePrefixes", @),
                  !.IncludeRegex = field("includeRegex", @),
                  !.ExcludeRegex = field("excludeRegex", @),
                  !.Priority = field("priority", @)]

\* getFilter: the filter, the error, and the JSON text the filter was read
\* from; profiles is the table profiles, (project_id, profile_name) ->
\* profile_data_json
getFilter(profiles, projectID, profileName, filterJSON) ==
    LET found == <<projectID, profileName>> \in DOMAIN profiles
        finalFilterJSON ==
            IF profileName # "" THEN (IF found THEN profiles[<<projectID, profileName>>]
                                      ELSE NoJSON)
            ELSE filterJSON
        f == IF finalFilterJSON.empty THEN ZeroFilter
             ELSE Unmarshal(finalFilterJSON.doc, ZeroFilter)
    IN  IF profileName # "" /\ ~found
        THEN [f |-> ZeroFilter, err |-> "profile not found", json |-> NoJSON]
        ELSE IF ~finalFilterJSON.empty /\ ~finalFilterJSON.valid
        THEN [f |-> ZeroFilter, err |-> "error parsing filter JSON",
              json |-> finalFilterJSON]
        ELSE [f |-> [f EXCEPT !.Priority = IF @ = "" THEN "includes" ELSE @],
              err |-> "", json |-> finalFilterJSON]

(***************************************************************************)
(* State.                                                                  *)
(***************************************************************************)
VARIABLES
    fs,             \* fs[projectID][path]: the project trees on disk
    now,            \* the wall clock, in seconds
    projects,       \* table projects: id -> [last_scan_timestamp]
    file_metadata,  \* table file_metadata, committed state: a bag of rows
    lock,           \* the process that holds the database write lock, or 0
    tx,             \* tx[p]: the transaction of process p and its view
    run,            \* run[p]: position and local variables of process p
                    \* (sameTree: no tree changed between the previous scan
                    \* and this one; committed: tx.Commit returned nil)
    before,         \* before[p]: the project's records and timestamp when
                    \* the refresh of p began (kept until the next one
                    \* unless the refresh changed the records)
    observed,       \* the records a reader saw while the refresh was running
    prev,           \* what the refresh that finished last did, and whether
                    \* a tree changed since it scanned
    profiles,       \* table profiles: <<project_id, profile_name>> -> JSON text
    query,          \* position and local variables of an analyze tree command
    scan            \* position and local variables of one call of ScanProject

refreshVars == <<fs, now, projects, file_metadata, lock, tx, run, before,
                 observed, prev>>

vars == <<fs, now, projects, file_metadata, lock, tx, run, before,
          observed, prev, profiles, query, scan>>

(***************************************************************************)
(* pkg/database: the tables and the statements cmd/cache.go runs.          *)
(***************************************************************************)
NotScannedYet == [text |-> "not_scanned_yet"]

EmptyTable == EmptyBag

\* the rows of a table that belong to one project
RowsOfProject(table, projectID) ==
    [r \in {x \in DOMAIN table : x.project_id = projectID} |-> table[r]]

\* the relative_path column of a set of rows
PathsOfRows(rows) == {x.relative_path : x \in DOMAIN rows}

\* DELETE FROM file_metadata WHERE project_id = ?
DeleteProjectRows(table, projectID) ==
    [r \in {x \in DOMAIN table : x.project_id # projectID} |-> table[r]]

\* DELETE FROM file_metadata WHERE relative_path IN (...): DeletePaths
\* without the test of the project
DeletePathsOfAnyProject(table, projectID, paths) ==
    [r \in {x \in DOMAIN table : x.relative_path \notin Range(paths)} |-> table[r]]

\* DELETE FROM file_metadata WHERE project_id = ? AND relative_path IN (...)
DeletePaths(table, projectID, paths) ==
    [r \in {x \in DOMAIN table :
                ~(x.project_id = projectID /\ x.relative_path \in Range(paths))}
        |-> table[r]]

\* ViolatesUnique for a table file_metadata created without the UNIQUE
\* constraint
ViolatesUniqueNever(table, rows) == FALSE

\* UNIQUE (project_id, relative_path): would inserting rows break it?
ViolatesUnique(table, rows) ==
    \/ \E i \in DOMAIN rows : \E x \in DOMAIN table :
          x.project_id = rows[i].project_id /\ x.relative_path = rows[i].relative_path
    \/ \E i, j \in DOMAIN rows :
          /\ i # j
          /\ rows[i].project_id = rows[j].project_id
          /\ rows[i].relative_path = rows[j].relative_path

RECURSIVE InsertRows(_, _)
InsertRows(table, rows) ==
    IF rows = <<>> THEN table
    ELSE InsertRows(table (+) SetToBag({Head(rows)}), Tail(rows))

\* InsertedRow with the modification time formatted to the second
InsertedRowSecondsOnly(projectID, f) ==
    [project_id |-> projectID,
     relative_path |-> f.RelativePath,
     filename |-> f.Filename,
     extension |-> f.Extension,
     size_bytes |-> f.SizeBytes,
     line_count |-> f.LineCount,
     is_text |-> f.IsText,
     last_mod_time |-> FormatRFC3339(f.LastModTime),
     content_hash |-> f.ContentHash]

\* InsertedRow with the time of the refresh bound in the place of the
\* modification time of the file
InsertedRowStampsNow(projectID, f) ==
    [project_id |-> projectID,
     relative_path |-> f.RelativePath,
     filename |-> f.Filename,
     extension |-> f.Extension,
     size_bytes |-> f.SizeBytes,
     line_count |-> f.LineCount,
     is_text |-> f.IsText,
     last_mod_time |-> FormatRFC3339Nano([sec |-> now, nsec |-> 0]),
     content_hash |-> f.ContentHash]

\* the row batchInsert binds for one file
InsertedRow(projectID, f) ==
    [project_id |-> projectID,
     relative_path |-> f.RelativePath,
     filename |-> f.Filename,
     extension |-> f.Extension,
     size_bytes |-> f.SizeBytes,
     line_count |-> f.LineCount,
     is_text |-> f.IsText,
     last_mod_time |-> FormatRFC3339Nano(f.LastModTime),
     content_hash |-> f.ContentHash]

\* UpdatedRow with size_bytes left out of the SET list
UpdatedRowWithoutSize(x, f) ==
    [x EXCEPT !.line_count = f.LineCount,
              !.is_text = f.IsText,
              !.last_mod_time = FormatRFC3339Nano(f.LastModTime),
              !.content_hash = f.ContentHash]

\* the row singleUpdate's UPDATE leaves for a row x that matches its WHERE
UpdatedRow(x, f) ==
    [x EXCEPT !.size_bytes = f.SizeBytes,
              !.line_count = f.LineCount,
              !.is_text = f.IsText,
              !.last_mod_time = FormatRFC3339Nano(f.LastModTime),
              !.content_hash = f.ContentHash]

\* UPDATE file_metadata SET ... WHERE project_id = ? AND relative_path = ?
UpdateRow(table, projectID, f) ==
    LET hit(x) == x.project_id = projectID /\ x.relative_path = f.RelativePath
        kept == [r \in {x \in DOMAIN table : ~hit(x)} |-> table[r]]
        RECURSIVE AddAll(_, _)
        AddAll(t, xs) ==
            IF xs = {} THEN t
            ELSE LET x == CHOOSE y \in xs : TRUE
                 IN  AddAll(t (+) [r \in {UpdatedRow(x, f)} |-> table[x]], xs \ {x})
    IN  AddAll(kept, {x \in DOMAIN table : hit(x)})

NoTx == [open |-> FALSE, dirty |-> FALSE, rows |-> EmptyTable]

\* what a statement of process p reads inside its transaction
TxView(p) == IF tx[p].dirty THEN tx[p].rows ELSE file_metadata

\* a write needs the database write lock
CanWrite(p) == lock \in {0, p}

(***************************************************************************)
(* cmd/cache.go: the processes.                                            *)
(***************************************************************************)
NoOutput == [status |-> "none", filesScanned |-> 0, files_added |-> 0,
             files_modified |-> 0, files_deleted |-> 0]

IdleRun ==
    [pc |-> "idle", projectID |-> 0, incremental |-> FALSE,
     scanOpts |-> DefaultOptions,
     batchSize |-> 0, dbFiles |-> <<>>, localFiles |-> <<>>,
     toInsert |-> <<>>, toUpdate |-> <<>>, toDelete |-> <<>>,
     i |-> 0, sameTree |-> FALSE, committed |-> FALSE, output |-> NoOutput]

NoBefore == [started |-> FALSE, rows |-> EmptyTable,
             last_scan_timestamp |-> NotScannedYet]

NoRead == [read |-> FALSE, projectID |-> 0, rows |-> EmptyTable]

NoPrev == [output |-> NoOutput, projectID |-> 0, incremental |-> FALSE,
           scanOpts |-> DefaultOptions,
           rows |-> EmptyTable, treeChanged |-> FALSE]

\* the .gitignore of a project root: missing, present but not readable
\* (the read fails with an error other than "file does not exist"), or a
\* readable list of names to ignore
NoIgnoreFile == [state |-> "missing", names |-> {}]

\* ScanProject before the call: task[path] is the progress of the work
\* submitted for a file, results and errs what resultPool has collected
IdleScan ==
    [pc |-> "idle", options |-> DefaultOptions, ignoreFile |-> NoIgnoreFile,
     ignoreNames |-> {}, ignoreNil |-> TRUE, pos |-> 1, pruned |-> {},
     task |-> <<>>, results |-> <<>>, errs |-> {}, walkErr |-> FALSE,
     err |-> "", files |-> <<>>]

IdleQuery ==
    [pc |-> "idle", projectID |-> 0, finalFilterJSON |-> NoJSON, f |-> ZeroFilter,
     err |-> "", includedPaths |-> <<>>, status |-> <<>>]

Init ==
    /\ profiles = <<>>
    /\ query = IdleQuery
    /\ scan = IdleScan
    /\ fs \in [ProjectIDs -> Trees]
    /\ now = 0
    /\ projects = <<>>
    /\ file_metadata = EmptyTable
    /\ lock = 0
    /\ tx = [p \in Procs |-> NoTx]
    /\ run = [p \in Procs |-> IdleRun]
    /\ before = [p \in Procs |-> NoBefore]
    /\ observed = NoRead
    /\ prev = NoPrev

\* the state of a process that has exited: its local variables are gone
Exited(r, output) ==
    [IdleRun EXCEPT !.pc = "done", !.projectID = r.projectID,
                    !.incremental = r.incremental, !.output = output]

\* the record of a finished refresh, kept for the refresh that follows it
Finished(r, output, table) ==
    [output |-> output, projectID |-> r.projectID, incremental |-> r.incremental,
     scanOpts |-> r.scanOpts, rows |-> RowsOfProject(table, r.projectID),
     treeChanged |-> FALSE]

\* printError: the message is printed and the process exits; an open
\* transaction is rolled back (by tx.Rollback or by the exit) and its lock
\* is released
Exit(p) ==
    /\ run' = [run EXCEPT ![p] = Exited(run[p], [NoOutput EXCEPT !.status = "error"])]
    /\ tx' = [tx EXCEPT ![p] = NoTx]
    /\ lock' = IF lock = p THEN 0 ELSE lock
    /\ observed' = NoRead
    /\ prev' = Finished(run[p], [NoOutput EXCEPT !.status = "error"], file_metadata)
    /\ UNCHANGED <<file_metadata, before>>

\* cacheUpdateCmd.Run up to the call of runFullScan / runIncrementalScan,
\* with getOrCreateProject
Start(p) ==
    /\ run[p].pc \in {"idle", "done"}
    /\ now < MaxClock
    /\ now' = now + 1
    /\ \E projectID \in ProjectIDs, incremental \in BOOLEAN,
          scanOpts \in RefreshOptions, batchSize \in 1..MaxBatchSize, ok \in BOOLEAN :
          IF ok
          THEN /\ projects' = IF projectID \in DOMAIN projects THEN projects
                              ELSE [id \in DOMAIN projects \cup {projectID} |->
                                      IF id = projectID
                                      THEN [last_scan_timestamp |-> NotScannedYet]
                                      ELSE projects[id]]
               /\ run' = [run EXCEPT ![p] = [IdleRun EXCEPT
                              !.pc = IF incremental THEN "inc_query" ELSE "full_delete",
                              !.projectID = projectID,
                              !.incremental = incremental,
                              !.scanOpts = scanOpts,
                              !.batchSize = batchSize]]
               /\ before' = [before EXCEPT ![p] =
                              [started |-> TRUE,
                               rows |-> RowsOfProject(file_metadata, projectID),
                               last_scan_timestamp |->
                                  projects'[projectID].last_scan_timestamp]]
               /\ UNCHANGED prev
          ELSE /\ run' = [run EXCEPT ![p] =
                              Exited([IdleRun EXCEPT !.projectID = projectID,
                                                     !.incremental = incremental],
                                     [NoOutput EXCEPT !.status = "error"])]
               /\ prev' = Finished([IdleRun EXCEPT !.projectID = projectID,
                                                   !.incremental = incremental,
                                                   !.scanOpts = scanOpts],
                                   [NoOutput EXCEPT !.status = "error"], file_metadata)
               /\ before' = [before EXCEPT ![p] = NoBefore]
               /\ UNCHANGED projects
    /\ UNCHANGED <<fs, file_metadata, lock, tx, observed>>

\* the files argument of batchInsert: files in runFullScan, toInsert in
\* runIncrementalScan
InsertFiles(r) == IF r.incremental THEN r.toInsert ELSE r.localFiles

\* batchInsert, singleUpdate and batchDelete return at once for an empty
\* argument: the statement that runs next
AfterUpdate(r) ==
    IF r.incremental /\ Len(r.toDelete) > 0 THEN "delete" ELSE "commit"
AfterInsert(r) ==
    IF r.incremental /\ Len(r.toUpdate) > 0 THEN "update" ELSE AfterUpdate(r)
AfterBegin(r) ==
    IF Len(InsertFiles(r)) > 0 THEN "insert" ELSE AfterInsert(r)

\* runFullScan: db.Exec("DELETE FROM file_metadata WHERE project_id = ?"),
\* a statement of its own outside every transaction
FullDelete(p) ==
    /\ run[p].pc = "full_delete"
    /\ \/ /\ CanWrite(p)
          /\ file_metadata' = DeleteProjectRows(file_metadata, run[p].projectID)
          /\ run' = [run EXCEPT ![p].pc = "scan"]
          /\ UNCHANGED <<tx, lock, before, observed, prev>>
       \/ Exit(p)
    /\ UNCHANGED <<fs, now, projects>>

\* scanner.ScanProject(projectPath, scanOpts): the records arrive in the
\* order in which the pool finished them
Scan(p) ==
    /\ run[p].pc = "scan"
    /\ \/ \E files \in Orderings(ScanProject(fs[run[p].projectID], run[p].scanOpts)) :
            /\ run' = [run EXCEPT ![p].localFiles = files,
                                  ![p].sameTree = ~prev.treeChanged,
                                  ![p].pc = IF run[p].incremental THEN "reconcile"
                                            ELSE "begin"]
            /\ UNCHANGED <<file_metadata, tx, lock, before, observed, prev>>
       \/ Exit(p)
    /\ UNCHANGED <<fs, now, projects>>

\* runIncrementalScan: the SELECT that fills dbFiles
IncQuery(p) ==
    /\ run[p].pc = "inc_query"
    /\ \/ /\ LET rows == DOMAIN RowsOfProject(file_metadata, run[p].projectID)
                 paths == {x.relative_path : x \in rows}
                 rowOf(path) == CHOOSE x \in rows : x.relative_path = path
             IN  run' = [run EXCEPT
                     ![p].dbFiles = [path \in paths |->
                         [ModTime |-> ParseRFC3339Nano(rowOf(path).last_mod_time),
                          Hash |-> rowOf(path).content_hash]],
                     ![p].pc = "scan"]
          /\ UNCHANGED <<file_metadata, tx, lock, before, observed, prev>>
       \/ Exit(p)
    /\ UNCHANGED <<fs, now, projects>>

\* Changed with the comparison of the modification times left out
ChangedHashOnly(f, dbInfo) == f.ContentHash # dbInfo.Hash

\* runIncrementalScan: is the scanned file f stale against its stored row?
Changed(f, dbInfo) ==
    ~TimeEqual(f.LastModTime, dbInfo.ModTime) \/ f.ContentHash # dbInfo.Hash

toInsertOf(localFiles, dbFiles) ==
    LET isNew(f) == f.RelativePath \notin DOMAIN dbFiles
    IN  SelectSeq(localFiles, isNew)

toUpdateOf(localFiles, dbFiles) ==
    LET isStale(f) == /\ f.RelativePath \in DOMAIN dbFiles
                      /\ Changed(f, dbFiles[f.RelativePath])
    IN  SelectSeq(localFiles, isStale)

\* toDeleteOf with the test of the second loop inverted
toDeleteOfInverted(localFiles, dbFiles) ==
    {path \in DOMAIN dbFiles :
        \E k \in DOMAIN localFiles : localFiles[k].RelativePath = path}

\* the paths of dbFiles that localFilesMap lacks
toDeleteOf(localFiles, dbFiles) ==
    {path \in DOMAIN dbFiles :
        \A k \in DOMAIN localFiles : localFiles[k].RelativePath # path}

UpToDate == [NoOutput EXCEPT !.status = "cache is up-to-date"]

\* runIncrementalScan: the two loops that build toInsert, toUpdate and
\* toDelete (toDelete in the order of a map iteration), and the return when
\* all three are empty
Reconcile(p) ==
    /\ run[p].pc = "reconcile"
    /\ \E deletes \in Orderings(toDeleteOf(run[p].localFiles, run[p].dbFiles)) :
          LET inserts == toInsertOf(run[p].localFiles, run[p].dbFiles)
              updates == toUpdateOf(run[p].localFiles, run[p].dbFiles)
          IN  IF Len(inserts) = 0 /\ Len(updates) = 0 /\ Len(deletes) = 0
              THEN /\ run' = [run EXCEPT ![p] = Exited(run[p], UpToDate)]
                   /\ observed' = NoRead
                   /\ UNCHANGED before
                   /\ prev' = Finished(run[p], UpToDate, file_metadata)
              ELSE /\ run' = [run EXCEPT ![p].toInsert = inserts,
                                         ![p].toUpdate = updates,
                                         ![p].toDelete = deletes,
                                         ![p].pc = "begin"]
                   /\ UNCHANGED <<before, observed, prev>>
    /\ UNCHANGED <<fs, now, projects, file_metadata, lock, tx>>

\* db.Begin()
Begin(p) ==
    /\ run[p].pc = "begin"
    /\ \/ /\ tx' = [tx EXCEPT ![p] = [NoTx EXCEPT !.open = TRUE]]
          /\ run' = [run EXCEPT ![p].pc = AfterBegin(run[p]), ![p].i = 0]
          /\ UNCHANGED <<file_metadata, lock, before, observed, prev>>
       \/ Exit(p)
    /\ UNCHANGED <<fs, now, projects>>

\* the end of the batch that starts at i
BatchEnd(i, batchSize, len) == IF i + batchSize > len THEN len ELSE i + batchSize

\* batchInsert: one iteration of the loop, that is one INSERT statement; an
\* error makes the caller roll back and exit
BatchInsertStep(p) ==
    /\ run[p].pc = "insert"
    /\ LET files == InsertFiles(run[p])
           end == BatchEnd(run[p].i, run[p].batchSize, Len(files))
           batch == Slice(files, run[p].i, end)
           rows == [k \in DOMAIN batch |-> InsertedRow(run[p].projectID, batch[k])]
       IN  \/ /\ Len(batch) > 0
              /\ CanWrite(p)
              /\ ~ViolatesUnique(TxView(p), rows)
              /\ tx' = [tx EXCEPT ![p].dirty = TRUE,
                                  ![p].rows = InsertRows(TxView(p), rows)]
              /\ lock' = p
              /\ run' = [run EXCEPT ![p].i = IF end < Len(files) THEN end ELSE 0,
                                    ![p].pc = IF end < Len(files) THEN "insert"
                                              ELSE AfterInsert(run[p])]
              /\ UNCHANGED <<file_metadata, before, observed, prev>>
           \/ Exit(p)
    /\ UNCHANGED <<fs, now, projects>>

\* singleUpdate: one iteration of the loop, that is one UPDATE statement
SingleUpdateStep(p) ==
    /\ run[p].pc = "update"
    /\ LET f == run[p].toUpdate[run[p].i + 1]
           last == run[p].i + 1 = Len(run[p].toUpdate)
       IN  \/ /\ CanWrite(p)
              /\ tx' = [tx EXCEPT ![p].dirty = TRUE,
                                  ![p].rows = UpdateRow(TxView(p), run[p].projectID, f)]
              /\ lock' = p
              /\ run' = [run EXCEPT ![p].i = IF last THEN 0 ELSE run[p].i + 1,
                                    ![p].pc = IF last THEN AfterUpdate(run[p])
                                              ELSE "update"]
              /\ UNCHANGED <<file_metadata, before, observed, prev>>
           \/ Exit(p)
    /\ UNCHANGED <<fs, now, projects>>

\* batchDelete: one iteration of the loop, that is one DELETE statement
BatchDeleteStep(p) ==
    /\ run[p].pc = "delete"
    /\ LET paths == run[p].toDelete
           end == BatchEnd(run[p].i, run[p].batchSize, Len(paths))
           batch == Slice(paths, run[p].i, end)
       IN  \/ /\ Len(batch) > 0
              /\ CanWrite(p)
              /\ tx' = [tx EXCEPT ![p].dirty = TRUE,
                                  ![p].rows = DeletePaths(TxView(p), run[p].projectID, batch)]
              /\ lock' = p
              /\ run' = [run EXCEPT ![p].i = IF end < Len(paths) THEN end ELSE 0,
                                    ![p].pc = IF end < Len(paths) THEN "delete"
                                              ELSE "commit"]
              /\ UNCHANGED <<file_metadata, before, observed, prev>>
           \/ Exit(p)
    /\ UNCHANGED <<fs, now, projects>>

\* Commit with the error of tx.Commit ignored: the refresh goes on
CommitIgnoringError(p) ==
    /\ run[p].pc = "commit"
    /\ \/ /\ file_metadata' = TxView(p)
          /\ run' = [run EXCEPT ![p].pc = "timestamp", ![p].committed = TRUE]
       \/ /\ UNCHANGED file_metadata
          /\ run' = [run EXCEPT ![p].pc = "timestamp"]
    /\ tx' = [tx EXCEPT ![p] = NoTx]
    /\ lock' = IF lock = p THEN 0 ELSE lock
    /\ UNCHANGED <<fs, now, projects, before, observed, prev>>

\* tx.Commit(): the view of the transaction becomes the committed table
Commit(p) ==
    /\ run[p].pc = "commit"
    /\ \/ /\ file_metadata' = TxView(p)
          /\ tx' = [tx EXCEPT ![p] = NoTx]
          /\ lock' = IF lock = p THEN 0 ELSE lock
          /\ run' = [run EXCEPT ![p].pc = "timestamp", ![p].committed = TRUE]
          /\ UNCHANGED <<before, observed, prev>>
       \/ Exit(p)
    /\ UNCHANGED <<fs, now, projects>>

\* what runFullScan / runIncrementalScan print at their end
Report(r) ==
    IF r.incremental
    THEN [NoOutput EXCEPT !.status = "cache updated (incremental scan)",
                          !.files_added = Len(r.toInsert),
                          !.files_modified = Len(r.toUpdate),
                          !.files_deleted = Len(r.toDelete)]
    ELSE [NoOutput EXCEPT !.status = "cache updated (full scan)",
                          !.filesScanned = Len(r.localFiles)]

\* db.Exec("UPDATE projects SET last_scan_timestamp = ? ...") with
\* time.Now().UTC().Format(time.RFC3339), its error ignored, and the report
\* printed after it
Timestamp(p) ==
    /\ run[p].pc = "timestamp"
    /\ \/ /\ CanWrite(p)
          /\ projects' = [projects EXCEPT ![run[p].projectID].last_scan_timestamp =
                              FormatRFC3339([sec |-> now, nsec |-> 0])]
       \/ UNCHANGED projects
    /\ run' = [run EXCEPT ![p] = Exited(run[p], Report(run[p]))]
    /\ before' = [before EXCEPT ![p] = NoBefore]
    /\ observed' = NoRead
    /\ prev' = Finished(run[p], Report(run[p]), file_metadata)
    /\ UNCHANGED <<fs, now, file_metadata, lock, tx>>

\* files of a project tree are created, rewritten, touched or removed.
\* ScanProject reads the tree in one step here, so a change made while a
\* refresh runs has the effect of the same change made before it started or
\* after it ended: the tree changes between invocations, and all the
\* changes made between two invocations are one step
FsChange ==
    /\ \A p \in Procs : run[p].pc \in {"idle", "done"}
    /\ ~prev.treeChanged
    /\ \E projectID \in ProjectIDs : \E new \in Trees :
          /\ new # fs[projectID]
          /\ fs' = [fs EXCEPT ![projectID] = new]
    /\ prev' = [prev EXCEPT !.treeChanged = TRUE]
    /\ UNCHANGED <<now, projects, file_metadata, lock, tx, run, before, observed>>

\* a reader (analyze, content get, report) runs
\* SELECT ... FROM file_metadata WHERE project_id = ? while a refresh is in
\* progress: it sees the committed table
Read ==
    /\ \E p \in Procs : run[p].pc \notin {"idle", "done"}
    /\ \E projectID \in DOMAIN projects :
          observed' = [read |-> TRUE, projectID |-> projectID,
                       rows |-> RowsOfProject(file_metadata, projectID)]
    /\ UNCHANGED <<fs, now, projects, file_metadata, lock, tx, run, before, prev>>

Refresh(p) ==
    \/ Start(p)
    \/ FullDelete(p)
    \/ IncQuery(p)
    \/ Scan(p)
    \/ Reconcile(p)
    \/ Begin(p)
    \/ BatchInsertStep(p)
    \/ SingleUpdateStep(p)
    \/ BatchDeleteStep(p)
    \/ Commit(p)
    \/ Timestamp(p)

\* refreshes run one at a time, as the callers are required to run them
Next ==
    \/ (\E p \in SerialProcs : Refresh(p)) /\ UNCHANGED <<profiles, query, scan>>
    \/ FsChange /\ UNCHANGED <<profiles, query, scan>>

Spec == Init /\ [][Next]_vars

\* two cache update processes, each run once, at the same time on a tree
\* that does not change
NextConcurrent ==
    /\ \E p \in Procs : run[p].pc # "done" /\ Refresh(p)
    /\ UNCHANGED <<profiles, query, scan>>

SpecConcurrent == Init /\ [][NextConcurrent]_vars

\* the rows a full refresh with the options scanOpts left when the tree
\* was old
CachedRows(projectID, old, scanOpts) ==
    SetToBag({InsertedRow(projectID, f) : f \in ScanProject(old, scanOpts)})

\* the trees the cache was last refreshed on: a.go alone, as it was first
\* written, or no file
EarlierTrees ==
    {t \in Trees : /\ t[PathAGo] \in {Absent, [exists |-> TRUE, mtime |-> FirstMTime,
                                                 content |-> TextOneLine]}
                   /\ \A path \in Paths \ {PathAGo} : t[path] = Absent}

\* the database after a full refresh of an earlier tree; the tree is the
\* same still or has changed since
InitCached ==
    /\ profiles = <<>>
    /\ query = IdleQuery
    /\ scan = IdleScan
    /\ fs \in [ProjectIDs -> Trees]
    /\ now = 0
    /\ lock = 0
    /\ tx = [p \in Procs |-> NoTx]
    /\ run = [p \in Procs |-> IdleRun]
    /\ before = [p \in Procs |-> NoBefore]
    /\ observed = NoRead
    /\ \E projectID \in ProjectIDs, old \in EarlierTrees, scanOpts \in RefreshOptions :
          LET rows == CachedRows(projectID, old, scanOpts)
          IN  /\ projects = (projectID :>
                    [last_scan_timestamp |-> FormatRFC3339([sec |-> 1, nsec |-> 0])])
              /\ file_metadata = rows
              /\ prev = [output |-> [NoOutput EXCEPT
                                        !.status = "cache updated (full scan)",
                                        !.filesScanned = BagCardinality(rows)],
                         projectID |-> projectID, incremental |-> FALSE,
                         scanOpts |-> scanOpts, rows |-> rows,
                         treeChanged |-> fs[projectID] # old]

\* the INSERT statement that batchInsert runs next
NextInsertBatch(p) ==
    LET files == InsertFiles(run[p])
        end == BatchEnd(run[p].i, run[p].batchSize, Len(files))
        batch == Slice(files, run[p].i, end)
    IN  [k \in DOMAIN batch |-> InsertedRow(run[p].projectID, batch[k])]

\* the statement that p runs next fails with SQLITE_BUSY, after the busy
\* timeout: another connection holds the write lock
LockError(p) ==
    /\ run[p].pc \in {"full_delete", "insert", "update", "delete"}
    /\ ~CanWrite(p)

\* the INSERT that p runs next fails on UNIQUE(project_id, relative_path)
ConstraintError(p) ==
    /\ run[p].pc = "insert"
    /\ ViolatesUnique(TxView(p), NextInsertBatch(p))

\* the step is the exit of p with an error
FailureStep(p) ==
    /\ run[p].pc # "done"
    /\ run'[p].pc = "done"
    /\ run'[p].output.status = "error"

\* the scans succeed and a refresh fails on a lock or a constraint only
OnlyLockOrConstraintErrors ==
    \A p \in Procs : FailureStep(p) => LockError(p) \/ ConstraintError(p)

\* a refresh is started with the scan options of the refresh before it
SameScanOptions ==
    \A p \in Procs :
       (run[p].pc = "idle" /\ run'[p].pc # "idle") => run'[p].scanOpts = prev.scanOpts

\* two cache update processes of one project, each run once, at the same
\* time and with the same options on a tree that does not change, where
\* nothing fails but statements on a lock or a constraint
NextInterleaved ==
    /\ NextConcurrent
    /\ OnlyLockOrConstraintErrors
    /\ SameScanOptions

SpecInterleaved == InitCached /\ [][NextInterleaved]_vars

\* the same, with readers that query the cache while a refresh runs
NextReader ==
    \/ (\E p \in SerialProcs : Refresh(p)) /\ UNCHANGED <<profiles, query, scan>>
    \/ FsChange /\ UNCHANGED <<profiles, query, scan>>
    \/ Read /\ UNCHANGED <<profiles, query, scan>>

SpecReader == Init /\ [][NextReader]_vars

(***************************************************************************)
(* analyze tree (cmd/analyze.go): a filter query against a cache that no   *)
(* refresh is changing.                                                    *)
(***************************************************************************)
PathReadmeMd == <<"R", "E", "A", "D", "M", "E", ".", "m", "d">>
\* the paths the cache of the queried project may hold
FilterPaths == {PathAGo, PathVendorBGo, PathReadmeMd}

\* the trees the cache was filled from
CachedTrees ==
    [FilterPaths -> {Absent, [exists |-> TRUE, mtime |-> FirstMTime,
                              content |-> TextOneLine]}]

VendorDir == <<"v", "e", "n", "d", "o", "r", "/">>
ExtGo == <<"g", "o">>
ExtMd == <<"m", "d">>
DotMd == <<".", "m", "d">>
PrefixA == <<"a">>
PrefixReadme == <<"R", "E", "A", "D", "M", "E">>
\* the regular expressions "\.go$" and "(", and the empty pattern
RegexGoFiles == <<"\\", ".", "g", "o", "$">>
RegexUnclosed == <<"(">>
RegexEmpty == <<>>

\* the values a filter specification gives to its include keys and to its
\* exclude keys; a specification has at most one include key and at most one
\* exclude key
IncludeRules ==
    [includePaths |-> {<<VendorDir>>, <<PathAGo>>},
     includeExts |-> {<<ExtGo>>, <<DotMd>>},
     includePrefixes |-> {<<PrefixA>>},
     includeRegex |-> {<<RegexEmpty>>, <<RegexUnclosed>>,
                       <<RegexGoFiles, RegexUnclosed>>}]

ExcludeRules ==
    [excludePaths |-> {<<VendorDir>>},
     excludeExts |-> {<<ExtMd>>, <<ExtGo>>},
     excludePrefixes |-> {<<PrefixReadme>>},
     excludeRegex |-> {<<RegexGoFiles>>, <<RegexUnclosed>>}]

IncludeKeys == DOMAIN IncludeRules
ExcludeKeys == DOMAIN ExcludeRules

\* the JSON objects with at most one key of rules
RuleDocs(rules) ==
    {<<>>} \cup UNION {{key :> value : value \in rules[key]} : key \in DOMAIN rules}

PriorityTokens == {"includes", "excludes", "exclude"}
PriorityDocs == {<<>>} \cup {"priority" :> token : token \in PriorityTokens}

FilterDocs ==
    {inc @@ exc @@ prio :
        inc \in RuleDocs(IncludeRules), exc \in RuleDocs(ExcludeRules),
        prio \in PriorityDocs}

FilterJSONs == {NoJSON, MalformedJSON} \cup {JSON(doc) : doc \in FilterDocs}

ProfileNames == {"", "p"}

\* the tables profiles that profiles save can have left
SavedProfiles ==
    {<<>>} \cup
    {<<projectID, "p">> :> JSON(doc) :
        projectID \in ProjectIDs,
        doc \in {"excludeExts" :> <<ExtMd>>,
                 ("includeExts" :> <<ExtGo>>) @@ ("excludePaths" :> <<VendorDir>>)
                     @@ ("priority" :> "excludes")}}

InitFilter ==
    /\ \E tree \in CachedTrees, options \in RefreshOptions :
          /\ fs = [projectID \in ProjectIDs |-> tree]
          /\ file_metadata =
                SetToBag({InsertedRow(projectID, f) :
                            projectID \in ProjectIDs, f \in ScanProject(tree, options)})
    /\ now = 1
    /\ projects = [projectID \in ProjectIDs |->
                      [last_scan_timestamp |-> FormatRFC3339([sec |-> 1, nsec |-> 0])]]
    /\ lock = 0
    /\ tx = [p \in Procs |-> NoTx]
    /\ run = [p \in Procs |-> IdleRun]
    /\ before = [p \in Procs |-> NoBefore]
    /\ observed = NoRead
    /\ prev = NoPrev
    /\ profiles \in SavedProfiles
    /\ query = IdleQuery
    /\ scan = IdleScan

\* no cache update is between its start and its exit
NoRefreshRuns == \A p \in Procs : run[p].pc \in {"idle", "done"}

\* printError in an analyze command
QueryFailed(err) == [IdleQuery EXCEPT !.pc = "done", !.err = err]

\* analyzeTreeCmd.Run: the project is found and getFilter is called with the
\* flags --profile-name and --filter-json
AnalyzeTreeGetFilter ==
    /\ query.pc = "idle"
    /\ \E projectID \in DOMAIN projects, profileName \in ProfileNames,
          filterJSON \in FilterJSONs :
          LET got == getFilter(profiles, projectID, profileName, filterJSON)
          IN  query' = IF got.err # "" THEN QueryFailed(got.err)
                       ELSE [query EXCEPT !.pc = "filter",
                                          !.projectID = projectID,
                                          !.finalFilterJSON = got.json,
                                          !.f = got.f]
    /\ UNCHANGED <<refreshVars, profiles, scan>>

\* the patterns of the filter are compiled and, unless one is invalid,
\* GetFilteredFilePaths evaluates every cached path of the project
AnalyzeTreeFilter ==
    /\ query.pc = "filter"
    /\ \E relativePaths \in
            Orderings(PathsOfRows(RowsOfProject(file_metadata, query.projectID))) :
          LET compiled == Compile(query.f)
          IN  query' = IF compiled.err # "" THEN QueryFailed(compiled.err)
                       ELSE [query EXCEPT
                               !.pc = "tree",
                               !.f = compiled.f,
                               !.includedPaths =
                                   GetFilteredFilePaths(relativePaths, compiled.f)]
    /\ UNCHANGED <<refreshVars, profiles, scan>>

\* analyzeTreeCmd.Run: every cached file becomes a node whose status tells
\* whether GetFilteredFilePaths returned its path
AnalyzeTreeBuild ==
    /\ query.pc = "tree"
    /\ query' = [query EXCEPT
                    !.pc = "done",
                    !.status =
                        [path \in PathsOfRows(RowsOfProject(file_metadata,
                                                            query.projectID)) |->
                            IF path \in Range(query.includedPaths)
                            THEN "included" ELSE "excluded"]]
    /\ UNCHANGED <<refreshVars, profiles, scan>>

NextFilter ==
    \/ AnalyzeTreeGetFilter
    \/ AnalyzeTreeFilter
    \/ AnalyzeTreeBuild

SpecFilter == InitFilter /\ [][NextFilter]_vars

(***************************************************************************)
(* processFile (pkg/scanner) on one file, the selection of its result by   *)
(* ScanProject and the row batchInsert binds for it.                       *)
(***************************************************************************)
\* contents on both sides of the end of the sniffed prefix: a NUL byte as
\* the last byte of the prefix, and a NUL byte right after it
NulAtSniffEnd == [i \in 1..SniffLen |-> IF i = SniffLen THEN 0 ELSE 97]
NulAfterSniff == [i \in 1..(SniffLen + 2) |->
                     IF i = SniffLen + 1 THEN 0 ELSE IF i = SniffLen + 2 THEN 10 ELSE 97]

ProcessContents == Contents \cup {<<>>, NulAtSniffEnd, NulAfterSniff}

\* a call of processFile before it runs
ProcessFileCalls ==
    {[pc |-> "file", path |-> path,
      info |-> [exists |-> TRUE, mtime |-> FirstMTime, content |-> content],
      options |-> options, meta |-> EmptyFileMetadata, files |-> <<>>,
      rows |-> <<>>] :
        path \in {PathAGo, PathImagePng}, content \in ProcessContents,
        options \in ScanOptions}

InitProcessFile ==
    /\ scan \in ProcessFileCalls
    /\ query = IdleQuery
    /\ profiles = <<>>
    /\ fs = [projectID \in ProjectIDs |-> [path \in Paths |-> Absent]]
    /\ now = 0
    /\ projects = <<>>
    /\ file_metadata = EmptyTable
    /\ lock = 0
    /\ tx = [p \in Procs |-> NoTx]
    /\ run = [p \in Procs |-> IdleRun]
    /\ before = [p \in Procs |-> NoBefore]
    /\ observed = NoRead
    /\ prev = NoPrev

\* processFile returns; ScanProject keeps the result unless its
\* RelativePath is empty; batchInsert binds the row of a kept result
ProcessFileCall ==
    /\ scan.pc = "file"
    /\ LET meta == processFile(scan.path, scan.info, scan.options)
           files == IF meta.RelativePath # <<>> THEN <<meta>> ELSE <<>>
       IN  scan' = [scan EXCEPT
                       !.pc = "processed",
                       !.meta = meta,
                       !.files = files,
                       !.rows = [i \in DOMAIN files |-> InsertedRow(1, files[i])]]
    /\ UNCHANGED <<refreshVars, profiles, query>>

NextProcessFile == ProcessFileCall

SpecProcessFile == InitProcessFile /\ [][NextProcessFile]_vars

(***************************************************************************)
(* batchInsert and batchDelete (cmd/cache.go) as loops over the indexes    *)
(* of their argument: files[k] and paths[k] are represented by k.          *)
(***************************************************************************)
\* the largest number of "?" parameters one SQLite statement may have
\* (SQLITE_MAX_VARIABLE_NUMBER of the library the driver embeds)
SQLITE_MAX_VARIABLE_NUMBER == 2^15 - 2

\* the parameters a statement binds for a batch: nine columns for each
\* inserted file; the project and one path for each deleted path
BoundParameters(op, items) ==
    IF op = "insert" THEN 9 * items ELSE 1 + items

\* the largest batch of each statement that stays within the limit
LargestBatch(op) ==
    IF op = "insert" THEN SQLITE_MAX_VARIABLE_NUMBER \div 9
    ELSE SQLITE_MAX_VARIABLE_NUMBER - 1

\* the lengths of the argument and the values of --batch-size: small ones,
\* and ones around the largest batch a statement can carry
BatchCalls ==
    {[pc |-> "loop", op |-> op, len |-> len, batchSize |-> batchSize, i |-> 0,
      stmts |-> <<>>, err |-> ""] :
        op \in {"insert", "delete"}, len \in 0..5, batchSize \in 1..4}
    \cup
    UNION {{[pc |-> "loop", op |-> op, len |-> LargestBatch(op) + d,
             batchSize |-> LargestBatch(op) + e, i |-> 0, stmts |-> <<>>,
             err |-> ""] : d \in 0..2, e \in 0..2} : op \in {"insert", "delete"}}

InitBatch ==
    /\ scan \in BatchCalls
    /\ query = IdleQuery
    /\ profiles = <<>>
    /\ fs = [projectID \in ProjectIDs |-> [path \in Paths |-> Absent]]
    /\ now = 0
    /\ projects = <<>>
    /\ file_metadata = EmptyTable
    /\ lock = 0
    /\ tx = [p \in Procs |-> NoTx]
    /\ run = [p \in Procs |-> IdleRun]
    /\ before = [p \in Procs |-> NoBefore]
    /\ observed = NoRead
    /\ prev = NoPrev

\* one iteration of the loop of batchInsert or batchDelete: the batch is
\* files[i:end], the statement is built and executed, and its error ends
\* the function; the function returns nil when the argument is empty or
\* the loop condition fails
BatchLoopStep ==
    /\ scan.pc = "loop"
    /\ IF scan.len = 0 \/ ~(scan.i < scan.len)
       THEN scan' = [scan EXCEPT !.pc = "returned"]
       ELSE LET end == BatchEnd(scan.i, scan.batchSize, scan.len)
                items == end - scan.i
            IN  IF BoundParameters(scan.op, items) > SQLITE_MAX_VARIABLE_NUMBER
                THEN scan' = [scan EXCEPT !.pc = "returned",
                                          !.err = "too many SQL variables"]
                ELSE scan' = [scan EXCEPT
                                 !.i = scan.i + scan.batchSize,
                                 !.stmts = Append(@, [from |-> scan.i + 1,
                                                      to |-> end])]
    /\ UNCHANGED <<refreshVars, profiles, query>>

NextBatch == BatchLoopStep

SpecBatch == InitBatch /\ [][NextBatch]_vars

(***************************************************************************)
(* report generate (cmd/report.go): the filter that selects the files of   *)
(* the report.                                                             *)
(***************************************************************************)
\* reportGenerateCmd.Run: the project is found, getFilter is called with
\* the flags --profile-name and --filter-json, and the report context is
\* built from the cached paths the filter selects
ReportGenerateWith(profileNames, filterJSONs) ==
    /\ query.pc = "idle"
    /\ \E projectID \in DOMAIN projects, profileName \in profileNames,
          filterJSON \in filterJSONs :
          \E relativePaths \in
                Orderings(PathsOfRows(RowsOfProject(file_metadata, projectID))) :
             LET got == getFilter(profiles, projectID, profileName, filterJSON)
                 compiled == Compile(got.f)
                 err == IF got.err # "" THEN got.err ELSE compiled.err
             IN  query' =
                    [pc |-> "report", projectID |-> projectID,
                     profileName |-> profileName, filterJSON |-> filterJSON,
                     finalFilterJSON |-> got.json,
                     f |-> IF err = "" THEN compiled.f ELSE ZeroFilter,
                     err |-> err,
                     includedPaths |->
                        IF err = "" THEN GetFilteredFilePaths(relativePaths, compiled.f)
                        ELSE <<>>]
    /\ UNCHANGED <<refreshVars, profiles, scan>>

ReportGenerate == ReportGenerateWith(ProfileNames, FilterJSONs)

NextReport == ReportGenerate

SpecReport == InitFilter /\ [][NextReport]_vars

(***************************************************************************)
(* cache update and report generate on a database that holds a second      *)
(* project, which has cached files and a saved profile.                    *)
(***************************************************************************)
\* the id AUTOINCREMENT gave to a project created after those of ProjectIDs
OtherProjectID == Cardinality(ProjectIDs) + 1

\* the rows of the second project: one path that the refreshed project
\* may have too, and one it never has
OtherProjectRows ==
    SetToBag({InsertedRow(OtherProjectID,
                          processFile(path, [exists |-> TRUE, mtime |-> FirstMTime,
                                             content |-> TextOneLine],
                                      DefaultOptions)) :
                path \in {PathAGo, PathReadmeMd}})

InitOtherProject ==
    /\ projects = (OtherProjectID :>
                      [last_scan_timestamp |-> FormatRFC3339([sec |-> 1, nsec |-> 0])])
    /\ file_metadata = OtherProjectRows
    /\ profiles = (<<OtherProjectID, "p">> :> JSON("excludeExts" :> <<ExtMd>>))
    /\ query = IdleQuery
    /\ scan = IdleScan
    /\ fs \in [ProjectIDs -> Trees]
    /\ now = 0
    /\ lock = 0
    /\ tx = [p \in Procs |-> NoTx]
    /\ run = [p \in Procs |-> IdleRun]
    /\ before = [p \in Procs |-> NoBefore]
    /\ observed = NoRead
    /\ prev = NoPrev

\* cache updates, run one at a time, and changes of the tree between them;
\* the report is the last command that runs
NextOtherProject ==
    \/ /\ query.pc = "idle"
       /\ (\E p \in SerialProcs : Refresh(p))
       /\ UNCHANGED <<profiles, query, scan>>
    \/ /\ query.pc = "idle"
       /\ FsChange
       /\ UNCHANGED <<profiles, query, scan>>
    \/ NoRefreshRuns /\ ReportGenerateWith(ProfileNames, {NoJSON})

SpecOtherProject == InitOtherProject /\ [][NextOtherProject]_vars

(***************************************************************************)
(* cmd/project.go and cmd/profiles.go: project delete, run between cache   *)
(* updates, and the profiles commands, run one command at a time.          *)
(***************************************************************************)
\* PRAGMA foreign_keys of the connection InitializeDB opens: the DSN sets
\* _busy_timeout only and no statement turns the pragma on, so it has the
\* default of SQLite, off, and the FOREIGN KEY clauses of the schema,
\* ON DELETE CASCADE included, are not enforced
foreign_keys == FALSE

\* the --data texts of profiles save: two filter specifications, a text that
\* is not JSON, and no text
ProfileData ==
    {JSON("excludeExts" :> <<ExtMd>>),
     JSON(("includeExts" :> <<ExtGo>>) @@ ("priority" :> "excludes")),
     MalformedJSON, NoJSON}

\* the --project-path and --name values of the profiles commands; project 2
\* is not a project cache update registers in this model
ProfileProjectIDs == {1, 2}
SavedNames == {"", "p", "q"}

\* the result of a profiles command
ProfilesResult(pc, projectID, profileName, err, data) ==
    [pc |-> pc, projectID |-> projectID, profileName |-> profileName,
     err |-> err, data |-> data]

\* INSERT INTO profiles ... that keeps the stored row when (project_id,
\* profile_name) is there already (ON CONFLICT DO NOTHING)
UpsertProfileKeepsOld(table, projectID, profileName, profileData) ==
    table @@ (<<projectID, profileName>> :> profileData)

\* INSERT INTO profiles ... ON CONFLICT(project_id, profile_name) DO UPDATE
\* SET profile_data_json = excluded.profile_data_json
UpsertProfile(table, projectID, profileName, profileData) ==
    (<<projectID, profileName>> :> profileData) @@ table

\* profilesLoadCmd.Run: the error, or the profile_data_json it prints as
\* the data of the response
profilesLoad(projectTable, profileTable, projectID, profileName) ==
    IF profileName = "" THEN [err |-> "--name is required", data |-> NoJSON]
    ELSE IF projectID \notin DOMAIN projectTable
    THEN [err |-> "error finding project", data |-> NoJSON]
    ELSE IF <<projectID, profileName>> \notin DOMAIN profileTable
    THEN [err |-> "error loading profile", data |-> NoJSON]
    ELSE IF ~profileTable[<<projectID, profileName>>].valid
    THEN [err |-> "profile data is not valid JSON", data |-> NoJSON]
    ELSE [err |-> "", data |-> profileTable[<<projectID, profileName>>]]

\* DELETE FROM projects WHERE id = ?
DeleteProjectRecord(table, projectID) ==
    [id \in DOMAIN table \ {projectID} |-> table[id]]

\* the rows of profiles that do not belong to the project
DeleteProjectProfiles(table, projectID) ==
    [k \in {x \in DOMAIN table : x[1] # projectID} |-> table[k]]

\* projectDeleteCmd.Run: DELETE FROM projects WHERE project_path = ?; the
\* statement may fail, and a path that is not registered is an error
ProjectDelete ==
    /\ NoRefreshRuns
    /\ \E projectID \in ProjectIDs, ok \in BOOLEAN :
          IF ok /\ projectID \in DOMAIN projects
          THEN /\ projects' = DeleteProjectRecord(projects, projectID)
               /\ file_metadata' = IF foreign_keys
                                    THEN DeleteProjectRows(file_metadata, projectID)
                                    ELSE file_metadata
               /\ profiles' = IF foreign_keys
                               THEN DeleteProjectProfiles(profiles, projectID)
                               ELSE profiles
          ELSE UNCHANGED <<projects, file_metadata, profiles>>
    /\ UNCHANGED <<fs, now, lock, tx, run, before, observed, prev, query, scan>>

\* profilesSaveCmd.Run: the flags are checked, the data is parsed as a
\* filter, the project is looked up, then the upsert runs
ProfilesSave ==
    /\ NoRefreshRuns
    /\ \E projectID \in ProfileProjectIDs, profileName \in SavedNames,
          profileData \in ProfileData, ok \in BOOLEAN :
          LET err == IF profileName = "" \/ profileData.empty
                     THEN "--name and --data are required"
                     ELSE IF ~profileData.valid THEN "invalid JSON format for --data"
                     ELSE IF projectID \notin DOMAIN projects
                     THEN "error finding project"
                     ELSE IF ~ok THEN "error saving profile"
                     ELSE ""
          IN  /\ profiles' = IF err = ""
                              THEN UpsertProfile(profiles, projectID, profileName,
                                                 profileData)
                              ELSE profiles
              /\ query' = ProfilesResult("saved", projectID, profileName, err,
                                          profileData)
    /\ UNCHANGED <<refreshVars, scan>>

\* profilesLoadCmd.Run
ProfilesLoad ==
    /\ NoRefreshRuns
    /\ \E projectID \in ProfileProjectIDs, profileName \in SavedNames :
          LET loaded == profilesLoad(projects, profiles, projectID, profileName)
          IN  query' = ProfilesResult("loaded", projectID, profileName,
                                      loaded.err, loaded.data)
    /\ UNCHANGED <<refreshVars, profiles, scan>>

\* profilesDeleteCmd.Run: DELETE FROM profiles WHERE project_id = ? AND
\* profile_name = ?; no row deleted is an error
ProfilesDelete ==
    /\ NoRefreshRuns
    /\ \E projectID \in ProfileProjectIDs, profileName \in SavedNames,
          ok \in BOOLEAN :
          LET err == IF profileName = "" THEN "--project-path and --name are required"
                     ELSE IF projectID \notin DOMAIN projects
                     THEN "error finding project"
                     ELSE IF ~ok THEN "error deleting profile"
                     ELSE IF <<projectID, profileName>> \notin DOMAIN profiles
                     THEN "no profile found"
                     ELSE ""
          IN  /\ profiles' = IF err = ""
                              THEN [k \in DOMAIN profiles \ {<<projectID, profileName>>}
                                        |-> profiles[k]]
                              ELSE profiles
              /\ query' = ProfilesResult("deleted", projectID, profileName, err,
                                          NoJSON)
    /\ UNCHANGED <<refreshVars, scan>>

\* projects.id is AUTOINCREMENT: a project registered again after its
\* deletion gets an id that was never used, outside ProjectIDs, so a cache
\* update starts only for a project that exists or that never existed (the
\* clock moves with every cache update)
NextProject ==
    \/ /\ \E p \in SerialProcs :
             /\ run[p].pc \in {"idle", "done"} =>
                   (ProjectIDs \subseteq DOMAIN projects \/ now = 0)
             /\ Refresh(p)
       /\ UNCHANGED <<profiles, query, scan>>
    \/ ProjectDelete

SpecProject == Init /\ [][NextProject]_vars

\* the profiles commands on a database in which one or two projects are
\* registered
InitProfiles ==
    /\ \E registered \in {{1}, ProfileProjectIDs} :
          projects = [projectID \in registered |->
                         [last_scan_timestamp |-> NotScannedYet]]
    /\ profiles = <<>>
    /\ query = IdleQuery
    /\ scan = IdleScan
    /\ fs = [projectID \in ProjectIDs |-> [path \in Paths |-> Absent]]
    /\ now = 0
    /\ file_metadata = EmptyTable
    /\ lock = 0
    /\ tx = [p \in Procs |-> NoTx]
    /\ run = [p \in Procs |-> IdleRun]
    /\ before = [p \in Procs |-> NoBefore]
    /\ observed = NoRead
    /\ prev = NoPrev

NextProfiles ==
    \/ ProfilesSave
    \/ ProfilesLoad
    \/ ProfilesDelete
    \/ ProjectDelete

SpecProfiles == InitProfiles /\ [][NextProfiles]_vars

(***************************************************************************)
(* One structured rule of a filter (pkg/filter) applied to one cached      *)
(* path, in the builds of the program: the rule is read from the JSON      *)
(* text, compiled and matched against the path as the scan stored it.      *)
(***************************************************************************)
\* the files of a project, by the elements of their relative paths
RulePaths ==
    {<<"t", "e", "s", "t", "_", "a", ".", "g", "o">>,
     <<"s", "r", "c", "/", "t", "e", "s", "t", "_", "b", "/", "x", ".", "g", "o">>,
     <<"s", "r", "c", "/", "m", "y", "t", "e", "s", "t", ".", "g", "o">>,
     <<"a", ".", "g", "o">>,
     <<"a", ".", "g", "o", "x">>,
     <<"g", "o", "/", "a", ".", "t", "x", "t">>,
     <<"a", "x", "g", "o">>,
     <<"s", "r", "c", "/", "a", ".", "g", "o">>}

\* the values of includePaths / excludePaths, of includePrefixes /
\* excludePrefixes and of includeExts / excludeExts
PathValues ==
    {<<"s", "r", "c", "/">>,
     <<"s", "r", "c", "\\">>,
     <<"s", "r", "c">>,
     <<"a", ".", "g", "o">>,
     <<"s", "r", "c", "/", "a", ".", "g", "o">>,
     <<"s", "r", "c", "\\", "a", ".", "g", "o">>}
PrefixValues ==
    {<<"t", "e", "s", "t">>,
     <<"s", "r", "c">>,
     <<"a", ".">>,
     <<"m", "y">>}
ExtValues ==
    {<<"g", "o">>,
     <<".", "g", "o">>,
     <<"t", "x", "t">>,
     <<"g", "o", "x">>}

PathKeys == {"includePaths", "excludePaths"}
PrefixKeys == {"includePrefixes", "excludePrefixes"}
ExtKeys == {"includeExts", "excludeExts"}

RuleValues(key) ==
    IF key \in PathKeys THEN PathValues
    ELSE IF key \in PrefixKeys THEN PrefixValues
    ELSE ExtValues

\* a filter query with one rule, before it runs: relativePath is the path
\* as filepath.Rel returned it to the scan that cached it
RuleQueries ==
    {[pc |-> "rule", separator |-> separator, key |-> key, value |-> value,
      relativePath |-> FromSlashFor(separator, path),
      f |-> ZeroFilter, err |-> "", matched |-> FALSE] :
        separator \in Separators,
        key \in PathKeys \cup PrefixKeys \cup ExtKeys,
        value \in PathValues \cup PrefixValues \cup ExtValues,
        path \in RulePaths}

InitRule ==
    /\ query \in {q \in RuleQueries : q.value \in RuleValues(q.key)}
    /\ profiles = <<>>
    /\ scan = IdleScan
    /\ fs = [projectID \in ProjectIDs |-> [path \in Paths |-> Absent]]
    /\ now = 0
    /\ projects = <<>>
    /\ file_metadata = EmptyTable
    /\ lock = 0
    /\ tx = [p \in Procs |-> NoTx]
    /\ run = [p \in Procs |-> IdleRun]
    /\ before = [p \in Procs |-> NoBefore]
    /\ observed = NoRead
    /\ prev = NoPrev

\* json.Unmarshal of the rule, Compile, and MatchesAny on the list the rule
\* belongs to, as the loop of GetFilteredFilePaths calls it
MatchRule ==
    /\ query.pc = "rule"
    /\ LET compiled == CompileFor(query.separator,
                                   Unmarshal(query.key :> <<query.value>>, ZeroFilter))
           patterns == IF query.key \in {"includePaths", "includeExts",
                                          "includePrefixes"}
                       THEN compiled.f.compiledIncludeRegex
                       ELSE compiled.f.compiledExcludeRegex
       IN  query' = [query EXCEPT
                        !.pc = "matched",
                        !.f = compiled.f,
                        !.err = compiled.err,
                        !.matched = MatchesAny(query.relativePath, patterns)]
    /\ UNCHANGED <<refreshVars, profiles, scan>>

NextRule == MatchRule

SpecRule == InitRule /\ [][NextRule]_vars

(***************************************************************************)
(* ScanProject (pkg/scanner), step by step: the walk, the goroutines of    *)
(* pathPool and of resultPool, the two waits and the return.               *)
(***************************************************************************)
\* runtime.NumCPU() of the machine
NumCPU == 2

PathGitignore == <<".", "g", "i", "t", "i", "g", "n", "o", "r", "e">>
PathSrcVendorCGo ==
    <<"s", "r", "c", "/", "v", "e", "n", "d", "o", "r", "/", "c", ".", "g", "o">>
DirSrc == <<"s", "r", "c">>
DirSrcVendor == <<"s", "r", "c", "/", "v", "e", "n", "d", "o", "r">>
DirVendor == <<"v", "e", "n", "d", "o", "r">>
NameImagePng == PathImagePng

\* the files and directories a scanned tree may hold, in the lexical order
\* in which filepath.WalkDir visits them
WalkOrder ==
    <<[path |-> PathGitignore, isDir |-> FALSE],
      [path |-> PathAGo, isDir |-> FALSE],
      [path |-> PathImagePng, isDir |-> FALSE],
      [path |-> DirSrc, isDir |-> TRUE],
      [path |-> DirSrcVendor, isDir |-> TRUE],
      [path |-> PathSrcVendorCGo, isDir |-> FALSE],
      [path |-> DirVendor, isDir |-> TRUE],
      [path |-> PathVendorBGo, isDir |-> FALSE]>>

ScanPaths == {PathGitignore, PathAGo, PathImagePng, PathSrcVendorCGo, PathVendorBGo}

TextFile == [exists |-> TRUE, mtime |-> FirstMTime, content |-> TextOneLine]
BinaryFile == [exists |-> TRUE, mtime |-> FirstMTime, content |-> BinaryContent]

\* the .gitignore files of the scanned trees
IgnoreFiles ==
    {NoIgnoreFile, [state |-> "error", names |-> {}],
     [state |-> "rules", names |-> {NameImagePng}],
     [state |-> "rules", names |-> {DirVendor}]}

\* the trees ScanProject is called on: .gitignore is a regular file of the
\* tree exactly when it is readable
ScanTrees(ignoreFile) ==
    {t \in [ScanPaths -> {Absent, TextFile, BinaryFile}] :
        /\ t[PathGitignore] = IF ignoreFile.state = "rules" THEN TextFile ELSE Absent
        /\ t[PathImagePng] \in {Absent, BinaryFile}
        /\ \A path \in {PathAGo, PathSrcVendorCGo, PathVendorBGo} :
              t[path] \in {Absent, TextFile}}

\* path lies below the directory dir
Below(path, dir) == HasPrefix(path, dir \o <<"/">>)

\* the entry is on disk: a file of the tree, or a directory that holds one
EntryExists(tree, entry) ==
    IF entry.isDir THEN \E path \in DOMAIN tree : tree[path].exists /\ Below(path, entry.path)
    ELSE tree[entry.path].exists

\* ignoreMatcher != nil && ignoreMatcher.MatchesPath(relPath), for rules that
\* are names: a name matches the entries so named and what lies below them
IgnoreMatches(sc, relPath) ==
    /\ ~sc.ignoreNil
    /\ \/ Base(relPath) \in sc.ignoreNames
       \/ \E dir \in AncestorDirs(relPath) : dir.Name \in sc.ignoreNames

\* the index in WalkOrder of the entry the walk visits next, 0 at the end
\* of the walk: entries below a directory that returned SkipDir are not
\* visited
NextVisit(tree, sc) ==
    LET visits == {k \in DOMAIN WalkOrder :
                      /\ k >= sc.pos
                      /\ EntryExists(tree, WalkOrder[k])
                      /\ \A dir \in sc.pruned : ~Below(WalkOrder[k].path, dir)}
    IN  IF visits = {} THEN 0 ELSE CHOOSE k \in visits : \A j \in visits : k <= j

TasksIn(sc, state) == {path \in DOMAIN sc.task : sc.task[path] = state}

InitScan ==
    /\ \E ignoreFile \in IgnoreFiles :
          /\ scan = [IdleScan EXCEPT !.ignoreFile = ignoreFile]
          /\ fs \in [ProjectIDs -> ScanTrees(ignoreFile)]
    /\ now = 1
    /\ projects = <<>>
    /\ file_metadata = EmptyTable
    /\ lock = 0
    /\ tx = [p \in Procs |-> NoTx]
    /\ run = [p \in Procs |-> IdleRun]
    /\ before = [p \in Procs |-> NoBefore]
    /\ observed = NoRead
    /\ prev = NoPrev
    /\ profiles = <<>>
    /\ query = IdleQuery

ScannedProject == CHOOSE projectID \in ProjectIDs : TRUE
ScannedTree == fs[ScannedProject]

\* ScanProject up to the call of WalkDir: .gitignore is compiled unless
\* NoGitIgnores is set, and the error of CompileIgnoreFile is dropped
ScanBegin ==
    /\ scan.pc = "idle"
    /\ \E options \in ScanOptions :
          scan' = [scan EXCEPT
                     !.pc = "walk",
                     !.options = options,
                     !.ignoreNil = options.NoGitIgnores \/ scan.ignoreFile.state # "rules",
                     !.ignoreNames = IF options.NoGitIgnores THEN {}
                                     ELSE scan.ignoreFile.names,
                     !.task = [path \in ScanPaths |-> "none"]]
    /\ UNCHANGED <<refreshVars, profiles, query>>

\* one call of the WalkDir callback; pathPool.Go blocks while NumCPU
\* goroutines of the pool are busy.  At the end of the walk, or when the
\* callback returns the error WalkDir passed to it for a directory it could
\* not read, ScanProject goes on to pathPool.Wait()
WalkDirStep ==
    /\ scan.pc = "walk"
    /\ LET k == NextVisit(ScannedTree, scan)
           entry == WalkOrder[k]
           dir == [Name |-> Base(entry.path), RelPath |-> entry.path]
       IN  IF k = 0
           THEN scan' = [scan EXCEPT !.pc = "path_wait"]
           ELSE IF entry.isDir
           THEN IF WalkSkipsDir(dir, scan.options) \/ IgnoreMatches(scan, entry.path)
                THEN scan' = [scan EXCEPT !.pos = k + 1, !.pruned = @ \cup {entry.path}]
                ELSE \/ scan' = [scan EXCEPT !.pos = k + 1]
                     \/ scan' = [scan EXCEPT !.pc = "path_wait", !.walkErr = TRUE]
           ELSE IF IgnoreMatches(scan, entry.path)
           THEN scan' = [scan EXCEPT !.pos = k + 1]
           ELSE /\ Cardinality(TasksIn(scan, "info")) < NumCPU
                /\ scan' = [scan EXCEPT !.pos = k + 1, !.task[entry.path] = "info"]
    /\ UNCHANGED <<refreshVars, profiles, query>>

\* a goroutine of pathPool: d.Info(), and the task handed to resultPool;
\* when Info fails (the file is gone) nothing is handed over
PathTask ==
    /\ \E path \in TasksIn(scan, "info") :
          \/ scan' = [scan EXCEPT !.task[path] = "processing"]
          \/ scan' = [scan EXCEPT !.task[path] = "dropped"]
    /\ UNCHANGED <<refreshVars, profiles, query>>

\* a goroutine of resultPool returns from processFile: with an error of
\* os.Open, Seek or io.Copy, or with the metadata (empty for a skipped binary
\* file), which the pool collects
ProcessFileReturn ==
    /\ \E path \in TasksIn(scan, "processing") :
          \/ scan' = [scan EXCEPT !.task[path] = "error", !.errs = @ \cup {path}]
          \/ LET meta == processFile(path, ScannedTree[path], scan.options)
             IN  scan' = [scan EXCEPT
                            !.task[path] = IF meta = EmptyFileMetadata
                                           THEN "skipped" ELSE "ok",
                            !.results = Append(@, meta)]
    /\ UNCHANGED <<refreshVars, profiles, query>>

\* PathPoolWait without the wait: ScanProject goes on to resultPool.Wait()
\* while goroutines of pathPool still run
PathPoolNoWait ==
    /\ scan.pc = "path_wait"
    /\ scan' = [scan EXCEPT !.pc = "result_wait"]
    /\ UNCHANGED <<refreshVars, profiles, query>>

\* pathPool.Wait() returns: no goroutine of pathPool is running
PathPoolWait ==
    /\ scan.pc = "path_wait"
    /\ TasksIn(scan, "info") = {}
    /\ scan' = [scan EXCEPT !.pc = "result_wait"]
    /\ UNCHANGED <<refreshVars, profiles, query>>

\* resultPool.Wait() returns and ScanProject returns: the error of the walk,
\* else the error of a task, else the collected results that are not empty
ResultPoolWait ==
    /\ scan.pc = "result_wait"
    /\ TasksIn(scan, "processing") = {}
    /\ LET notEmpty(res) == res.RelativePath # <<>>
       IN  scan' = [scan EXCEPT
                      !.pc = "done",
                      !.err = IF scan.walkErr THEN "walk"
                              ELSE IF scan.errs # {} THEN "process" ELSE "",
                      !.files = IF scan.walkErr \/ scan.errs # {} THEN <<>>
                                ELSE SelectSeq(scan.results, notEmpty)]
    /\ UNCHANGED <<refreshVars, profiles, query>>

NextScan ==
    \/ ScanBegin
    \/ WalkDirStep
    \/ PathTask
    \/ ProcessFileReturn
    \/ PathPoolWait
    \/ ResultPoolWait

SpecScan == InitScan /\ [][NextScan]_vars

(***************************************************************************)
(* Properties of the refresh (cmd/cache.go).                               *)
(***************************************************************************)
Quiescent == \A p \in Procs : run[p].pc \in {"idle", "done"}

Running(p) == run[p].pc \notin {"idle", "done"}

\* the pcs of runIncrementalScan between the reconciliation and tx.Commit
Reconciled == {"begin", "insert", "update", "delete", "commit"}

\* a FileRecord as the claims speak of it
RecordOfRow(x) ==
    [RelativePath |-> x.relative_path, SizeBytes |-> x.size_bytes,
     LineCount |-> x.line_count, IsText |-> x.is_text,
     LastModTime |-> ParseRFC3339Nano(x.last_mod_time), ContentHash |-> x.content_hash]

RecordOfFile(f) ==
    [RelativePath |-> f.RelativePath, SizeBytes |-> f.SizeBytes,
     LineCount |-> f.LineCount, IsText |-> f.IsText,
     LastModTime |-> f.LastModTime, ContentHash |-> f.ContentHash]

\* the persisted FileRecord set of a project holds exactly the records of
\* files, one row each
PersistedEquals(projectID, files) ==
    LET rows == RowsOfProject(file_metadata, projectID)
    IN  /\ \A x \in DOMAIN rows : rows[x] = 1
        /\ \A x, y \in DOMAIN rows : x.relative_path = y.relative_path => x = y
        /\ {RecordOfRow(x) : x \in DOMAIN rows} = {RecordOfFile(f) : f \in files}

PathsOfFiles(files) == {files[k].RelativePath : k \in DOMAIN files}

IncrementalSuccess == {"cache updated (incremental scan)", "cache is up-to-date"}

\* C1: once an incremental refresh has completed successfully (with changes
\* applied or with "cache is up-to-date"), and until the tree changes or the
\* next refresh starts, the persisted records of the project are exactly the
\* live scan of the tree: same paths, and per path the scanned size, line
\* count, text flag, modification time and hash.
C1_IncrementalEqualsLiveScan ==
    (/\ Quiescent
     /\ prev.incremental
     /\ prev.output.status \in IncrementalSuccess
     /\ ~prev.treeChanged)
    => PersistedEquals(prev.projectID, ScanProject(fs[prev.projectID], prev.scanOpts))

\* an incremental refresh that inserted, updated and deleted has completed
C1_Witness ==
    /\ Quiescent
    /\ ~prev.treeChanged
    /\ prev.output.status = "cache updated (incremental scan)"
    /\ prev.output.files_added > 0
    /\ prev.output.files_modified > 0
    /\ prev.output.files_deleted > 0

\* C2: a refresh (full or incremental) that failed after it started leaves
\* the persisted records of its project exactly as they were when it began.
C2_FailedRefreshKeepsSnapshot ==
    \A p \in Procs :
        (run[p].pc = "done" /\ run[p].output.status = "error" /\ before[p].started)
        => RowsOfProject(file_metadata, run[p].projectID) = before[p].rows

\* C3: after the reconciliation of runIncrementalScan the three sets are
\* pairwise disjoint and without repetition, toInsert is the live paths absent
\* from the snapshot, toDelete the snapshot paths absent from the live scan,
\* and toUpdate holds only paths present in both.
C3_ReconciliationPartition ==
    \A p \in Procs :
        (run[p].incremental /\ run[p].pc \in Reconciled)
        => LET live == {f.RelativePath :
                          f \in ScanProject(fs[run[p].projectID], run[p].scanOpts)}
               snap == PathsOfRows(RowsOfProject(file_metadata, run[p].projectID))
               ins == PathsOfFiles(run[p].toInsert)
               upd == PathsOfFiles(run[p].toUpdate)
               del == Range(run[p].toDelete)
           IN  /\ ins \cap upd = {} /\ ins \cap del = {} /\ upd \cap del = {}
               /\ Cardinality(ins) = Len(run[p].toInsert)
               /\ Cardinality(upd) = Len(run[p].toUpdate)
               /\ Cardinality(del) = Len(run[p].toDelete)
               /\ ins = live \ snap
               /\ del = snap \ live
               /\ upd \subseteq live \cap snap

\* a reconciliation with a file to delete and a file present in both that
\* is left untouched
C3_Witness ==
    \E p \in Procs :
        /\ run[p].incremental /\ run[p].pc \in Reconciled
        /\ Len(run[p].toDelete) > 0
        /\ Len(run[p].toInsert) > 0
        /\ \E path \in DOMAIN run[p].dbFiles :
              /\ path \in PathsOfFiles(run[p].localFiles)
              /\ path \notin PathsOfFiles(run[p].toUpdate)

\* the committed row of a path of a project
StoredRow(projectID, path) ==
    CHOOSE x \in DOMAIN RowsOfProject(file_metadata, projectID) : x.relative_path = path

\* C4: a live file whose path is in the snapshot is left untouched if and
\* only if both its modification time and its content hash equal the stored
\* values, and is in toUpdate otherwise; the files_modified that the refresh
\* reports counts exactly these files, a touched file included.
C4_UnchangedIffTimeAndHashEqual ==
    \A p \in Procs :
        /\ (run[p].incremental /\ run[p].pc \in Reconciled)
           => \A k \in DOMAIN run[p].localFiles :
                 LET f == run[p].localFiles[k]
                     x == StoredRow(run[p].projectID, f.RelativePath)
                 IN  f.RelativePath \in
                        PathsOfRows(RowsOfProject(file_metadata, run[p].projectID))
                     => (f \notin Range(run[p].toUpdate)
                         <=> /\ TimeEqual(f.LastModTime,
                                          ParseRFC3339Nano(x.last_mod_time))
                             /\ f.ContentHash = x.content_hash)
        /\ (run[p].incremental /\ run[p].pc = "timestamp")
           => Report(run[p]).files_modified =
                 Cardinality({k \in DOMAIN run[p].localFiles :
                    LET f == run[p].localFiles[k]
                    IN  /\ f.RelativePath \in DOMAIN run[p].dbFiles
                        /\ \/ ~TimeEqual(f.LastModTime,
                                         run[p].dbFiles[f.RelativePath].ModTime)
                           \/ f.ContentHash # run[p].dbFiles[f.RelativePath].Hash})

\* a touched file (new modification time, same content hash) is in toUpdate
\* and the refresh is about to report it
C4_Witness ==
    \E p \in Procs :
        /\ run[p].incremental /\ run[p].pc = "timestamp"
        /\ \E k \in DOMAIN run[p].toUpdate :
              LET f == run[p].toUpdate[k]
              IN  /\ f.ContentHash = run[p].dbFiles[f.RelativePath].Hash
                  /\ ~TimeEqual(f.LastModTime, run[p].dbFiles[f.RelativePath].ModTime)

\* C5: an incremental refresh that finds the cache up to date writes nothing
\* to the FileRecord table and still advances the last-scan timestamp of the
\* project to the time of the refresh.
C5_UpToDateAdvancesTimestamp ==
    \A p \in Procs :
        (run[p].pc = "done" /\ run[p].output = UpToDate /\ before[p].started)
        => /\ RowsOfProject(file_metadata, run[p].projectID) = before[p].rows
           /\ projects[run[p].projectID].last_scan_timestamp =
                 FormatRFC3339([sec |-> now, nsec |-> 0])

\* the records a project has once a refresh of the current tree is complete
PostRefreshRecords(r) ==
    {RecordOfFile(f) : f \in ScanProject(fs[r.projectID], r.scanOpts)}

\* C6: a reader that runs concurrently with a refresh observes either the
\* complete records the project had when the refresh began or the complete
\* records it has after the refresh, never an intermediate (emptied) set.
C6_ReaderSeesPreOrPost ==
    observed.read
    => \A p \in Procs :
          (Running(p) /\ before[p].started /\ run[p].projectID = observed.projectID)
          => \/ observed.rows = before[p].rows
             \/ {RecordOfRow(x) : x \in DOMAIN observed.rows} = PostRefreshRecords(run[p])

FullSuccess == "cache updated (full scan)"

\* C7: a full refresh that follows a successful full refresh of the same
\* project with the same settings and no change of the tree between the two
\* leaves the same persisted records as the first, and reports the same
\* number of scanned files.
C7_FullRefreshIdempotent ==
    \A p \in Procs :
        (/\ run[p].pc = "timestamp" /\ ~run[p].incremental /\ run[p].sameTree
         /\ prev.output.status = FullSuccess /\ ~prev.incremental
         /\ prev.projectID = run[p].projectID /\ prev.scanOpts = run[p].scanOpts)
        => /\ RowsOfProject(file_metadata, run[p].projectID) = prev.rows
           /\ Report(run[p]).filesScanned = prev.output.filesScanned

\* the second of two full refreshes of an unchanged tree of two files or
\* more has committed
C7_Witness ==
    \E p \in Procs :
        /\ run[p].pc = "timestamp" /\ ~run[p].incremental /\ run[p].sameTree
        /\ prev.output.status = FullSuccess /\ ~prev.incremental
        /\ prev.projectID = run[p].projectID /\ prev.scanOpts = run[p].scanOpts
        /\ prev.output.filesScanned >= 2
        /\ run[p].committed

TimestampOf(ps, projectID) ==
    IF projectID \in DOMAIN ps THEN ps[projectID].last_scan_timestamp ELSE NotScannedYet

\* C8: the last-scan timestamp of a project is written only by a refresh of
\* that project whose transaction has committed, and a refresh that failed
\* (scan, statement or commit) leaves the timestamp at the value it had when
\* the refresh began.
C8_TimestampOnlyAfterCommit ==
    /\ [][\A projectID \in ProjectIDs :
            TimestampOf(projects', projectID) # TimestampOf(projects, projectID)
            => \E p \in Procs : /\ run[p].pc = "timestamp"
                                /\ run[p].committed
                                /\ run[p].projectID = projectID]_vars
    /\ [](\A p \in Procs :
            (run[p].pc = "done" /\ run[p].output.status = "error" /\ before[p].started)
            => projects[run[p].projectID].last_scan_timestamp
                  = before[p].last_scan_timestamp)

\* a refresh has committed and written the timestamp of its project
C8_Witness ==
    \E p \in Procs :
        /\ run[p].pc = "done"
        /\ run[p].output.status \in {FullSuccess, "cache updated (incremental scan)"}
        /\ projects[run[p].projectID].last_scan_timestamp =
              FormatRFC3339([sec |-> now, nsec |-> 0])

(***************************************************************************)
(* Properties of the filter engine.                                        *)
(***************************************************************************)
CachedPaths(projectID) == PathsOfRows(RowsOfProject(file_metadata, projectID))

\* the precedence token a filter specification gives, "" when it gives none
PrecedenceToken(json) ==
    IF "priority" \in DOMAIN json.doc THEN json.doc["priority"] ELSE ""

\* the command evaluated the cached paths and, at "done", built the tree
Evaluated == query.pc \in {"tree", "done"} /\ query.err = ""

MatchesBoth(path) ==
    /\ MatchesAny(path, query.f.compiledIncludeRegex)
    /\ MatchesAny(path, query.f.compiledExcludeRegex)

\* C9: a cached path that matches at least one include pattern and at least
\* one exclude pattern is returned, and marked "included" in the tree, when
\* the precedence token of the specification is "includes", absent or any
\* value other than "excludes"; it is left out, and marked "excluded",
\* exactly when the token is "excludes".
C9_PrecedenceDecidesDoubleMatch ==
    Evaluated
    => \A path \in CachedPaths(query.projectID) :
          MatchesBoth(path)
          => LET included == PrecedenceToken(query.finalFilterJSON) # "excludes"
             IN  /\ path \in Range(query.includedPaths) <=> included
                 /\ query.pc = "done"
                    => query.status[path] = IF included THEN "included" ELSE "excluded"

\* a tree was built for a specification whose token is neither "includes"
\* nor "excludes" and a cached path matches patterns of both lists
C9_Witness ==
    /\ query.pc = "done" /\ query.err = ""
    /\ PrecedenceToken(query.finalFilterJSON) \notin {"includes", "excludes"}
    /\ \E path \in CachedPaths(query.projectID) : MatchesBoth(path)

\* C10: for a specification with no include rules and no priority, a cached
\* path that matches an exclude rule is not returned by GetFilteredFilePaths
\* and is marked "excluded" in the tree.
C10_ExcludeOnlyFilterExcludes ==
    (/\ query.pc = "done" /\ query.err = ""
     /\ DOMAIN query.finalFilterJSON.doc \cap IncludeKeys = {}
     /\ "priority" \notin DOMAIN query.finalFilterJSON.doc)
    => \A path \in CachedPaths(query.projectID) :
          MatchesAny(path, query.f.compiledExcludeRegex)
          => /\ path \notin Range(query.includedPaths)
             /\ query.status[path] = "excluded"

\* path matches a pattern of the compiled include list, of the exclude list
MatchesInclude(path) == MatchesAny(path, query.f.compiledIncludeRegex)
MatchesExclude(path) == MatchesAny(path, query.f.compiledExcludeRegex)

\* the verdict of the command on a cached path: returned by
\* GetFilteredFilePaths and, once the tree is built, marked "included"
Included(path) ==
    /\ path \in Range(query.includedPaths)
    /\ query.pc = "done" => query.status[path] = "included"

Excluded(path) ==
    /\ path \notin Range(query.includedPaths)
    /\ query.pc = "done" => query.status[path] = "excluded"

\* C11: a cached path that matches some include pattern and no exclude
\* pattern is included; a path that matches no include pattern while the
\* include list is not empty is excluded, whatever the exclude list and the
\* precedence token; a path that matches no include pattern is included only
\* when the include list is empty.
C11_SingleMatchDecides ==
    Evaluated
    => \A path \in CachedPaths(query.projectID) :
          /\ (MatchesInclude(path) /\ ~MatchesExclude(path)) => Included(path)
          /\ (~MatchesInclude(path) /\ Len(query.f.compiledIncludeRegex) > 0)
             => Excluded(path)
          /\ (~MatchesInclude(path) /\ ~Excluded(path))
             => Len(query.f.compiledIncludeRegex) = 0

\* a tree was built for a filter with patterns in both lists: one cached path
\* matches an include pattern only, another matches no pattern at all
C11_Witness ==
    /\ query.pc = "done" /\ query.err = ""
    /\ Len(query.f.compiledIncludeRegex) > 0
    /\ Len(query.f.compiledExcludeRegex) > 0
    /\ \E path \in CachedPaths(query.projectID) :
          MatchesInclude(path) /\ ~MatchesExclude(path)
    /\ \E path \in CachedPaths(query.projectID) :
          ~MatchesInclude(path) /\ ~MatchesExclude(path)

\* C12: when a pattern of the filter specification is not a valid regular
\* expression, Compile returns an error that names that pattern and leaves
\* in neither compiled list a matcher produced by the call.
C12_FailedCompileLeavesNoMatchers ==
    query.pc = "filter"
    => LET compiled == Compile(query.f)
       IN  compiled.err # ""
           => /\ ~regexpCompile(compiled.pattern).ok
              /\ compiled.f.compiledIncludeRegex = <<>>
              /\ compiled.f.compiledExcludeRegex = <<>>

(***************************************************************************)
(* Properties of ScanProject.                                              *)
(***************************************************************************)
\* the records of the files whose processFile returned metadata
ProcessedRecords ==
    {processFile(path, ScannedTree[path], scan.options) : path \in TasksIn(scan, "ok")}

\* C13: when processFile fails with an I/O error for some files, ScanProject
\* still returns without error, with the records of all the other files; the
\* failing files are absent from the result.
C13_FileErrorDropsOnlyThatFile ==
    (scan.pc = "done" /\ ~scan.walkErr)
    => /\ scan.err = ""
       /\ Range(scan.files) = ProcessedRecords
       /\ \A path \in scan.errs :
             \A k \in DOMAIN scan.files : scan.files[k].RelativePath # path

\* C14: at every moment of a scan at most NumCPU files are being processed
\* by processFile.
C14_ProcessingBoundedByNumCPU ==
    Cardinality(TasksIn(scan, "processing")) <= NumCPU

\* path lies below a directory whose name is a preset exclusion
BelowPreset(path) == \E dir \in AncestorDirs(path) : dir.Name \in presetExclusions

PathsOfRecords(records) == {records[k].RelativePath : k \in DOMAIN records}

\* C15: with preset exclusions enabled no file below a directory with a
\* preset name, at any depth, is submitted to the pool or appears in the
\* result; with preset exclusions disabled the regular text files below
\* such a directory, unless git-ignored, appear in the result of a scan
\* that returns without error (a file that is gone when d.Info() is called
\* excepted).
C15_PresetExclusionPrunes ==
    scan.pc # "idle"
    => \A path \in ScanPaths :
          BelowPreset(path)
          => /\ ~scan.options.NoPresetExcludes
                => /\ scan.task[path] = "none"
                   /\ path \notin PathsOfRecords(scan.results)
                   /\ path \notin PathsOfRecords(scan.files)
             /\ (/\ scan.options.NoPresetExcludes
                 /\ scan.pc = "done" /\ scan.err = ""
                 /\ ScannedTree[path] = TextFile
                 /\ ~IgnoreMatches(scan, path)
                 /\ scan.task[path] # "dropped")
                => path \in PathsOfRecords(scan.files)

\* a scan with preset exclusions enabled returned records although the tree
\* holds src/vendor/c.go, two levels down, and vendor/b.go
C15_Witness ==
    /\ scan.pc = "done" /\ scan.err = ""
    /\ ~scan.options.NoPresetExcludes
    /\ ScannedTree[PathSrcVendorCGo].exists
    /\ ScannedTree[PathVendorBGo].exists
    /\ PathAGo \in PathsOfRecords(scan.files)

\* C16: with .gitignore parsing enabled, a missing .gitignore is not an
\* error, and a .gitignore that cannot be read for another reason makes
\* ScanProject fail with that error: nothing is scanned without the rules.
C16_IgnoreFileErrorIsFatal ==
    (scan.pc # "idle" /\ ~scan.options.NoGitIgnores)
    => /\ scan.ignoreFile.state = "missing" => scan.err # "ignore"
       /\ scan.ignoreFile.state = "error"
          => /\ scan.pc = "done" /\ scan.err = "ignore"
             /\ scan.files = <<>>
             /\ \A path \in ScanPaths : scan.task[path] = "none"

\* C17: resultPool.Wait() begins only when no goroutine of pathPool can
\* still hand a task over, ScanProject returns only when every submitted
\* file has finished, and the result of a scan that returns without error
\* holds exactly one record for each file that was processed successfully
\* and not skipped as binary.
C17_HandoffLosesNothing ==
    /\ scan.pc \in {"result_wait", "done"} => TasksIn(scan, "info") = {}
    /\ scan.pc = "done" => TasksIn(scan, "processing") = {}
    /\ (scan.pc = "done" /\ scan.err = "")
       => /\ Range(scan.files) = ProcessedRecords
          /\ Len(scan.files) = Cardinality(TasksIn(scan, "ok"))
          /\ PathsOfRecords(scan.files) = TasksIn(scan, "ok")

\* a scan returned two records or more; one binary file was skipped
C17_Witness ==
    /\ scan.pc = "done" /\ scan.err = ""
    /\ Len(scan.files) >= 2
    /\ TasksIn(scan, "skipped") # {}

(***************************************************************************)
(* The UNIQUE constraint of file_metadata under two concurrent refreshes.  *)
(***************************************************************************)
\* no two rows of the table have the same project and relative path
OneRowPerPath(table) ==
    \A x \in DOMAIN table :
       /\ table[x] = 1
       /\ \A y \in DOMAIN table :
             (x.project_id = y.project_id /\ x.relative_path = y.relative_path)
                => x = y

\* the rows that the INSERT statement process p is about to run would add
PendingInsert(p) ==
    LET files == InsertFiles(run[p])
        batch == Slice(files, run[p].i,
                       BatchEnd(run[p].i, run[p].batchSize, Len(files)))
    IN  [k \in DOMAIN batch |-> InsertedRow(run[p].projectID, batch[k])]

\* process p is about to insert a row for a (project, path) that the table
\* it sees already holds
DuplicateInsert(p) ==
    /\ run[p].pc = "insert"
    /\ \E i \in DOMAIN PendingInsert(p) : \E x \in DOMAIN TxView(p) :
          /\ x.project_id = PendingInsert(p)[i].project_id
          /\ x.relative_path = PendingInsert(p)[i].relative_path

\* C18: the committed table and the table every open transaction sees hold
\* at most one row per (project, relative path); when a refresh runs an
\* INSERT for a pair that is already there, the statement fails: the refresh
\* exits with an error, its transaction is rolled back and the committed
\* table is left as it was.
C18_OneRecordPerProjectAndPath ==
    /\ [](OneRowPerPath(file_metadata) /\ \A p \in Procs : OneRowPerPath(TxView(p)))
    /\ [][\A p \in Procs :
            (DuplicateInsert(p) /\ run'[p] # run[p]) =>
                /\ run'[p].pc = "done"
                /\ run'[p].output.status = "error"
                /\ tx'[p] = NoTx
                /\ file_metadata' = file_metadata]_vars

\* a refresh is about to insert a path that the other refresh has committed
\* in the meantime
C18_Witness ==
    \E p, q \in Procs :
       /\ p # q
       /\ DuplicateInsert(p)
       /\ run[q].pc = "done"
       /\ run[q].output.status \in {"cache updated (full scan)",
                                    "cache updated (incremental scan)"}
       /\ RowsOfProject(file_metadata, run[p].projectID) # EmptyTable

(***************************************************************************)
(* project delete.                                                         *)
(***************************************************************************)
\* every row of file_metadata and of profiles belongs to a project of the
\* table projects
NoOrphans ==
    /\ \A x \in DOMAIN file_metadata : x.project_id \in DOMAIN projects
    /\ \A k \in DOMAIN profiles : k[1] \in DOMAIN projects

\* C19: when project delete removes a project, no row of file_metadata and
\* no profile of that project is left; in every reachable state every row of
\* file_metadata and every profile refers to a project that exists.
C19_ProjectDeleteCascades ==
    /\ []NoOrphans
    /\ [][\A projectID \in DOMAIN projects \ DOMAIN projects' :
            /\ RowsOfProject(file_metadata', projectID) = EmptyTable
            /\ DeleteProjectProfiles(profiles', projectID) = profiles']_vars

(***************************************************************************)
(* The verdict of the filter engine as a function of the path and the      *)
(* filter.                                                                 *)
(***************************************************************************)
\* the verdict for one path evaluated on its own
Verdict(path, f) == GetFilteredFilePaths(<<path>>, f) = <<path>>

\* C20: the verdict for a cached path depends on the path and the filter
\* only: whatever the order in which the query yields the cached paths, a
\* path is among the paths GetFilteredFilePaths returned exactly when it is
\* returned when evaluated on its own with the same filter, and evaluating
\* the paths again in any order gives the same verdict; the evaluation
\* leaves the filter as Compile made it and the tables as they were.
C20_VerdictDependsOnPathAndFilter ==
    /\ [](Evaluated =>
            \A path \in CachedPaths(query.projectID) :
               /\ path \in Range(query.includedPaths) <=> Verdict(path, query.f)
               /\ \A relativePaths \in Orderings(CachedPaths(query.projectID)) :
                     path \in Range(GetFilteredFilePaths(relativePaths, query.f))
                        <=> Verdict(path, query.f))
    /\ [][(query.pc = "filter" /\ query'.pc = "tree") =>
            /\ query'.f = Compile(query.f).f
            /\ file_metadata' = file_metadata
            /\ projects' = projects
            /\ profiles' = profiles]_vars

\* three cached paths or more were evaluated; some were returned and some
\* were not
C20_Witness ==
    /\ Evaluated
    /\ Cardinality(CachedPaths(query.projectID)) >= 3
    /\ Range(query.includedPaths) # {}
    /\ Range(query.includedPaths) # CachedPaths(query.projectID)

(***************************************************************************)
(* The structured rules of a filter.                                       *)
(***************************************************************************)
\* the rule was compiled and matched against the cached path
RuleMatched(keys) ==
    query.pc = "matched" /\ query.err = "" /\ query.key \in keys

\* C21: an includePaths / excludePaths value that ends in the path
\* separator matches every cached path below that directory, that is every
\* cached path that starts with the value; a value that does not end in the
\* separator matches the cached path equal to it and no other path.
C21_PathRuleSubtreeOrExact ==
    RuleMatched(PathKeys)
    => (query.matched <=>
            IF HasSuffix(query.value, <<query.separator>>)
            THEN HasPrefix(query.relativePath, query.value)
            ELSE query.relativePath = query.value)

\* C22: an includePrefixes / excludePrefixes value matches a cached path
\* exactly when the value begins one of its segments: at the start of the
\* path or right after a separator.
C22_PrefixRuleAtSegmentStart ==
    RuleMatched(PrefixKeys)
    => (query.matched <=>
            \E i \in DOMAIN query.relativePath :
               /\ i = 1 \/ query.relativePath[i - 1] = query.separator
               /\ HasPrefix(SubSeq(query.relativePath, i, Len(query.relativePath)),
                            query.value))

\* C23: an includeExts / excludeExts value, with or without a leading dot,
\* matches exactly the cached paths that end in "." followed by the
\* extension.
C23_ExtRuleAnchoredAtEnd ==
    RuleMatched(ExtKeys)
    => (query.matched <=>
            HasSuffix(query.relativePath,
                      <<".">> \o TrimPrefix(query.value, <<".">>)))

\* an extension given with its dot matched a path of a subdirectory
C23_Witness ==
    /\ RuleMatched(ExtKeys)
    /\ HasPrefix(query.value, <<".">>)
    /\ query.matched
    /\ \E i \in DOMAIN query.relativePath : query.relativePath[i] = query.separator

(***************************************************************************)
(* profiles save and profiles load.                                        *)
(***************************************************************************)
\* the last command was a profiles save that succeeded
Saved == query.pc = "saved" /\ query.err = ""

\* the rows of profiles other than the row of (projectID, profileName)
OtherProfiles(table, projectID, profileName) ==
    [k \in DOMAIN table \ {<<projectID, profileName>>} |-> table[k]]

\* C24: a profiles save that succeeds for (project, name, data) leaves a
\* store from which profiles load of (project, name) returns data without
\* error, writes data over what (project, name) held and leaves the
\* profiles of every other name and of every other project as they were; a
\* profiles load that succeeds returns what the store holds for (project,
\* name), and the store holds one text for each (project, name).
C24_SaveThenLoadReturnsData ==
    /\ [][(Saved' /\ projects' = projects) =>
            /\ profilesLoad(projects', profiles', query'.projectID,
                             query'.profileName)
                  = [err |-> "", data |-> query'.data]
            /\ profiles'[<<query'.projectID, query'.profileName>>] = query'.data
            /\ OtherProfiles(profiles', query'.projectID, query'.profileName)
                  = OtherProfiles(profiles, query'.projectID, query'.profileName)]_vars
    /\ []((query.pc = "loaded" /\ query.err = "") =>
            query.data = profiles[<<query.projectID, query.profileName>>])

\* a save succeeded while a profile of another name and a profile of the
\* other project were stored, one of them with other data
C24_Witness ==
    /\ Saved
    /\ \E k \in DOMAIN profiles : k[1] # query.projectID
    /\ \E k \in DOMAIN profiles : k[1] = query.projectID /\ k[2] # query.profileName
    /\ \E k \in DOMAIN profiles : profiles[k] # query.data

(***************************************************************************)
(* report generate with --profile-name and --filter-json.                  *)
(***************************************************************************)
\* C25: when report generate is given both --profile-name and
\* --filter-json, the filter that selects the files is the one of
\* --filter-json: the saved profile is not read, so the command neither
\* uses its text nor fails because the profile is missing.
C25_FilterJSONTakesPrecedence ==
    (/\ query.pc = "report"
     /\ query.profileName # ""
     /\ ~query.filterJSON.empty)
    => LET got == getFilter(<<>>, query.projectID, "", query.filterJSON)
       IN  /\ query.finalFilterJSON = query.filterJSON
           /\ got.err = "" /\ Compile(got.f).err = ""
               => /\ query.err = ""
                  /\ query.f = Compile(got.f).f

(***************************************************************************)
(* Text and binary files.                                                  *)
(***************************************************************************)
\* C26: a record a scan produces has is_text false exactly when one of the
\* first 512 bytes of the file is a NUL byte; with include-binary off no
\* record is produced, and so no row is inserted, with is_text false; a
\* record or row with is_text false has line count 0.
C26_BinaryDetection ==
    scan.pc = "processed"
    => LET nul == \E i \in DOMAIN scan.info.content :
                     i <= 512 /\ scan.info.content[i] = 0
       IN  /\ \A i \in DOMAIN scan.files :
                 /\ scan.files[i].IsText <=> ~nul
                 /\ ~scan.options.IncludeBinary => scan.files[i].IsText
                 /\ ~scan.files[i].IsText => scan.files[i].LineCount = 0
           /\ \A i \in DOMAIN scan.rows :
                 /\ scan.rows[i].is_text <=> ~nul
                 /\ ~scan.options.IncludeBinary => scan.rows[i].is_text
                 /\ ~scan.rows[i].is_text => scan.rows[i].line_count = 0
           /\ (nul /\ ~scan.options.IncludeBinary) => scan.files = <<>>
           /\ (~nul \/ scan.options.IncludeBinary) => Len(scan.files) = 1

\* a file longer than the prefix, with a NUL byte right after the prefix,
\* was recorded as text with its line counted
C26_Witness ==
    /\ scan.pc = "processed"
    /\ Len(scan.info.content) > 512
    /\ \E i \in DOMAIN scan.info.content : scan.info.content[i] = 0
    /\ Len(scan.rows) = 1
    /\ scan.rows[1].is_text /\ scan.rows[1].line_count = 1

(***************************************************************************)
(* Batched statements.                                                     *)
(***************************************************************************)
\* the statements run so far carry consecutive, non-empty batches of at
\* most batch-size items, from the first item on
BatchesInOrder ==
    \A k \in DOMAIN scan.stmts :
       /\ scan.stmts[k].from <= scan.stmts[k].to
       /\ scan.stmts[k].to - scan.stmts[k].from + 1 <= scan.batchSize
       /\ scan.stmts[k].from = IF k = 1 THEN 1 ELSE scan.stmts[k - 1].to + 1

\* the function returned nil and the statements carried every item
ReturnedComplete ==
    /\ scan.err = ""
    /\ IF scan.len = 0 THEN scan.stmts = <<>>
       ELSE scan.stmts # <<>> /\ scan.stmts[Len(scan.stmts)].to = scan.len

\* C27: for every batch size of at least 1, every statement of batchInsert
\* and of batchDelete carries at least one and at most batch-size items,
\* every iteration moves the loop forward, and the function returns
\* without error after statements that carry each item of the argument
\* exactly once, in order, so that the result does not depend on the
\* batch size.
C27_BatchesCoverEachItemOnce ==
    /\ [](BatchesInOrder /\ (scan.pc = "returned" => ReturnedComplete))
    /\ [][scan.pc = "loop" => (scan'.pc = "returned" \/ scan'.i > scan.i)]_vars

(***************************************************************************)
(* An incremental refresh right after a successful refresh.                *)
(***************************************************************************)
SuccessStatuses ==
    {FullSuccess, "cache updated (incremental scan)", "cache is up-to-date"}

\* process p runs an incremental refresh that has read the stored rows and
\* scanned the tree; the refresh before it was a successful refresh of the
\* same project and no tree changed since
RescanAfterSuccess(p) ==
    /\ run[p].pc = "reconcile"
    /\ run[p].sameTree
    /\ prev.output.status \in SuccessStatuses
    /\ prev.projectID = run[p].projectID

\* the three change sets are empty and the refresh ends with the report
\* "cache is up-to-date"
FindsNothingToDo(p) ==
    /\ toInsertOf(run[p].localFiles, run[p].dbFiles) = <<>>
    /\ toUpdateOf(run[p].localFiles, run[p].dbFiles) = <<>>
    /\ toDeleteOf(run[p].localFiles, run[p].dbFiles) = {}

EndsUpToDate(p) ==
    run'[p] # run[p] => (run'[p].pc = "done" /\ run'[p].output = UpToDate)

\* C28 as stated: after any successful refresh, an incremental refresh run
\* next with no filesystem change finds the three change sets empty and
\* reports "cache is up-to-date".
C28_RescanFindsNothing ==
    /\ [](\A p \in Procs : RescanAfterSuccess(p) => FindsNothingToDo(p))
    /\ [][\A p \in Procs : RescanAfterSuccess(p) => EndsUpToDate(p)]_vars

\* C28, amended: after any successful refresh, an incremental refresh run
\* next with the same scan options and no filesystem change finds the
\* three change sets empty and reports "cache is up-to-date": the stored
\* modification times and hashes equal the rescanned ones after the
\* format-then-parse round trip.
C28_RescanSameOptionsFindsNothing ==
    /\ [](\A p \in Procs :
            (RescanAfterSuccess(p) /\ prev.scanOpts = run[p].scanOpts)
               => FindsNothingToDo(p))
    /\ [][\A p \in Procs :
            (RescanAfterSuccess(p) /\ prev.scanOpts = run[p].scanOpts)
               => EndsUpToDate(p)]_vars

\* an incremental refresh with the same options rescanned, after a
\* successful refresh, two files or more of which one has a modification
\* time with a sub-second part
C28_Witness ==
    \E p \in Procs :
       /\ RescanAfterSuccess(p) /\ prev.scanOpts = run[p].scanOpts
       /\ Len(run[p].localFiles) >= 2
       /\ \E k \in DOMAIN run[p].localFiles :
             run[p].localFiles[k].LastModTime.nsec # 0

(***************************************************************************)
(* Isolation of the projects of one database.                              *)
(***************************************************************************)
\* the cache updates in progress before or after the step refresh other
\* projects than projectID
NotRefreshed(projectID) ==
    \A p \in Procs : run[p].projectID # projectID /\ run'[p].projectID # projectID

\* C29: a step of a refresh of one project, up to its success or failure,
\* leaves the rows of file_metadata, the profiles and the last-scan
\* timestamp of every other project unchanged; a filter query for a
\* project returns paths cached for that project only, each at most once.
C29_ProjectsAreIsolated ==
    /\ [][\A projectID \in DOMAIN projects :
            NotRefreshed(projectID) =>
               /\ RowsOfProject(file_metadata', projectID)
                     = RowsOfProject(file_metadata, projectID)
               /\ \A p \in Procs :
                     RowsOfProject(TxView(p)', projectID)
                        = RowsOfProject(file_metadata, projectID)
               /\ projectID \in DOMAIN projects'
               /\ projects'[projectID] = projects[projectID]
               /\ profiles' = profiles]_vars
    /\ [][(query.pc = "idle" /\ query'.pc = "report") =>
            /\ Range(query'.includedPaths) \subseteq CachedPaths(query'.projectID)
            /\ Cardinality(Range(query'.includedPaths)) = Len(query'.includedPaths)]_vars

\* a refresh of project 1 has succeeded and left rows, one of them for a
\* path that project 2 has too, and a report of project 2 selected paths
C29_Witness ==
    /\ prev.output.status \in SuccessStatuses
    /\ prev.projectID # OtherProjectID
    /\ PathAGo \in CachedPaths(prev.projectID)
    /\ query.pc = "report" /\ query.projectID = OtherProjectID
    /\ Len(query.includedPaths) >= 1

(***************************************************************************)
(* Two refreshes of one project at the same time.                          *)
(***************************************************************************)
BothFinished == \A p \in Procs : run[p].pc = "done"

\* the rows of a scan of the tree as it is, with the options of the two
\* refreshes
LiveRows(projectID) == CachedRows(projectID, fs[projectID], prev.scanOpts)

\* C30: once two refreshes of the same project have both finished, on a
\* tree that did not change and whose scans succeeded, the rows of the
\* project are those of the live scan, one per path, also when one of the
\* two ended on a constraint or lock error.
C30_InterleavedRefreshesConverge ==
    BothFinished =>
       \A projectID \in ProjectIDs :
          RowsOfProject(file_metadata, projectID) = LiveRows(projectID)
====
